---- MODULE Spec2Model ----
(***************************************************************************)
(* A model of the XBRL extraction engine of src/app/edinet.py.             *)
(*                                                                         *)
(* Numbers.  Python floats are modelled as exact decimals m * 10^e kept in *)
(* canonical form (m carries no trailing zero), plus the value "inf" that  *)
(* float() produces for literals beyond the float range.  Binary rounding  *)
(* noise of IEEE doubles is not modelled; round(x, 4) is round-half-even   *)
(* on the decimal.                                                         *)
(*                                                                         *)
(* Names.  An element's local name and a contextRef are sequences of       *)
(* CamelCase words; "p in name" (substring) is containment of p's words as *)
(* a contiguous run of name's words.                                       *)
(***************************************************************************)
EXTENDS Integers, Sequences, FiniteSets, TLC

VARIABLES
    val,        \* _normalize_ratio: the argument
    norm_out,   \* _normalize_ratio: the value returned (NoCall before the call)
    pc,         \* the position of the call in progress
    all_files,  \* zf.namelist(): the member paths, in archive order
    xbrl_files, \* the traditional-XBRL candidates
    htm_files,  \* the inline-XBRL candidates
    zip_content,     \* parse_xbrl_for_holding_data: the bytes passed in
    result,          \* its local result
    partial_results, \* its local partial_results
    htm_i,           \* the position of its loop over htm_files
    reads,           \* the paths zf.read was called with, in call order
    exc,             \* the exception its try block ended with, "" for none
    ret,             \* the record it returned (NoCall before the return)
    escaped,         \* whether an exception left it
    doc,        \* an extractor called on its own: the document passed in
    strategy,   \* the extractor that was called, "" before the call
    out,        \* what it returned: Ok(record) or Raised
    info,       \* diagnose_xbrl: its local info
    clients,    \* SSEBroadcaster._clients: client id -> the messages in its queue
    next_id,    \* SSEBroadcaster._next_id
    sse_op,     \* the SSEBroadcaster call made last and how it ended
    sent,       \* the messages broadcast so far, oldest first
    filings,    \* the committed rows of table filings: their doc_id, in id order
    runs,       \* the poll_edinet calls: run -> its position and locals
    announced,  \* the doc_id of each 'new_filing' event broadcast, oldest first
    demo_seeded,    \* poller._demo_seeded
    polls_started,  \* the poll_edinet calls made so far
    now,                \* time.monotonic(), in seconds
    poll_last_called,   \* poll._poll_last_called
    answers,    \* the requests trigger_poll has answered, oldest first
    upstream,   \* fetch_document_list: how the request to EDINET ends
    fetched,    \* what it returned: Ok(list) or Raised (NoCall before the call)
    rows,           \* the rows with xbrl_flag set, in id order: their state
    _retry_offset,  \* poller._retry_offset
    total_unparsed, \* _retry_xbrl_enrichment: its local total_unparsed
    retry_filings   \* its local filings: the positions in rows of the batch

vars == <<val, norm_out, pc, all_files, xbrl_files, htm_files, zip_content, result,
          partial_results, htm_i, reads, exc, ret, escaped, doc, strategy, out,
          info, clients, next_id, sse_op, sent, filings, runs, announced, demo_seeded,
          polls_started, now, poll_last_called, answers, upstream, fetched, rows,
          _retry_offset, total_unparsed, retry_filings>>

normVars == <<val, norm_out>>
selVars == <<all_files, xbrl_files, htm_files>>
parseVars == <<zip_content, result, partial_results, htm_i, reads, exc, ret, escaped>>
extractVars == <<doc, strategy, out>>
diagVars == <<info>>
sseVars == <<clients, next_id, sse_op, sent>>
pollVars == <<filings, runs, announced, demo_seeded, polls_started>>
limitVars == <<now, poll_last_called, answers>>
fetchVars == <<upstream, fetched>>
retryVars == <<rows, _retry_offset, total_unparsed, retry_filings>>
restVars == <<fetchVars, retryVars>>
svcVars == <<pollVars, limitVars, restVars>>
coreVars == <<pc, normVars, selVars, parseVars, extractVars, diagVars, sseVars>>

(***************************************************************************)
(* Values                                                                  *)
(***************************************************************************)
\* Python's None; every value is a record with the same fields, told apart by k
None == [k |-> "none", m |-> 0, e |-> 0]
\* float("inf"), also what float("1e999") returns
Inf == [k |-> "inf", m |-> 0, e |-> 0]
\* the marker of "the function was not called yet"
NoCall == [k |-> "nocall", m |-> 0, e |-> 0]

IsNone(v) == v.k = "none"
IsNum(v) == v.k = "num"

RECURSIVE Pow10(_)
Pow10(n) == IF n <= 0 THEN 1 ELSE 10 * Pow10(n - 1)

RECURSIVE Canon(_, _)
\* the decimal m * 10^e with the trailing zeros of m moved into e
Canon(m, e) ==
    IF m = 0 THEN [k |-> "num", m |-> 0, e |-> 0]
    ELSE IF m % 10 = 0 THEN Canon(m \div 10, e + 1)
    ELSE [k |-> "num", m |-> m, e |-> e]

Abs(n) == IF n < 0 THEN -n ELSE n

\* v > 0 for a float v
IsPositive(v) == v.k = "inf" \/ (v.k = "num" /\ v.m > 0)

\* v <= 1.0 for a float v
AtMostOne(v) ==
    /\ v.k = "num"
    /\ IF v.e >= 0 THEN v.m * Pow10(v.e) <= 1 ELSE v.m <= Pow10(-v.e)

\* v * 10^n
Scale10(v, n) == IF v.k = "num" THEN Canon(v.m, v.e + n) ELSE v

\* -v (only finite values are negated in the model)
Negate(v) == IF v.k = "num" THEN Canon(-v.m, v.e) ELSE v

\* round(v, 4) for v > 0: half-even on the decimal
Round4(v) ==
    IF v.k # "num" \/ v.e >= -4 THEN v
    ELSE LET p == Pow10(-4 - v.e)
             q == v.m \div p
             r == v.m % p
             up == 2 * r > p \/ (2 * r = p /\ q % 2 = 1)
         IN Canon(IF up THEN q + 1 ELSE q, -4)

\* int(v) for a finite float: truncation towards zero
IntOf(v) ==
    IF v.e >= 0 THEN v.m * Pow10(v.e)
    ELSE IF v.m >= 0 THEN v.m \div Pow10(-v.e)
    ELSE -((-v.m) \div Pow10(-v.e))

(***************************************************************************)
(* Numeric normalizer                                                      *)
(***************************************************************************)
\* the same with the upper end of the interval left out (1.0 is not rescaled)
NormalizeRatioOpenInterval(v) ==
    IF IsPositive(v) /\ AtMostOne(v) /\ v # Canon(1, 0)
    THEN Round4(Scale10(v, 2)) ELSE v

\* _normalize_ratio
NormalizeRatio(v) ==
    IF IsPositive(v) /\ AtMostOne(v) THEN Round4(Scale10(v, 2)) ELSE v

(***************************************************************************)
(* Names and the pattern lists                                             *)
(***************************************************************************)
\* p in name
In(p, name) ==
    \E i \in 0..(Len(name) - Len(p)) : \A j \in 1..Len(p) : name[i + j] = p[j]

\* any(p in name for p in patterns), patterns a tuple
AnyIn(patterns, name) == \E i \in 1..Len(patterns) : In(patterns[i], name)

\* _name_contains_any
NameContainsAny(name, patterns, exclude) ==
    IF exclude # <<>> /\ AnyIn(exclude, name) THEN FALSE
    ELSE AnyIn(patterns, name)

\* ratio_patterns of _extract_from_xbrl
ratio_patterns ==
    << <<"Holding", "Ratio", "Of", "Share", "Certificates", "Etc">>,
       <<"Total", "Shareholding", "Ratio", "Of", "Share", "Certificates", "Etc">>,
       <<"Total", "Shareholding", "Ratio">>,
       <<"Ratio", "Of", "Shareholding", "To", "Total", "Issued", "Shares">>,
       <<"Ratio", "Of", "Share", "Certificates", "Etc", "At", "Time", "Of",
         "Previous", "Report">> >>

RATIO_PATTERNS ==
    << <<"Holding", "Ratio">>,
       <<"Shareholding", "Ratio">>,
       <<"Ratio", "Of", "Shareholding", "To", "Total", "Issued", "Shares">>,
       <<"Ratio", "Of", "Share", "Certificates", "Etc">> >>

RATIO_EXCLUDE ==
    << <<"Abstract">>, <<"Each", "Large", "Shareholder">>, <<"Joint", "Holder">> >>

SHARES_PATTERNS ==
    << <<"Total", "Number", "Of", "Share", "Certificates", "Etc", "Held">>,
       <<"Total", "Number", "Of", "Shares", "Held">>,
       <<"Number", "Of", "Share", "Certificates", "Etc">>,
       <<"Number", "Of", "Stocks", "Etc">> >>

\* the pattern list _find_first_int is called with for shares_held
shares_patterns_xbrl ==
    << <<"Total", "Number", "Of", "Share", "Certificates", "Etc", "Held">>,
       <<"Total", "Number", "Of", "Shares", "Held">>,
       <<"Number", "Of", "Share", "Certificates", "Etc">>,
       <<"Number", "Of", "Stocks", "Etc", "Held">> >>

HOLDER_PATTERNS ==
    << <<"Name", "Of", "Large", "Shareholding", "Reporter">>,
       <<"Name", "Of", "Filer">>,
       <<"Reporter", "Name">>,
       <<"Large", "Shareholder", "Name">> >>

TARGET_PATTERNS ==
    << <<"Issuer", "Name", "Large", "Shareholding">>,
       <<"Issuer", "Name">>,
       <<"Name", "Of", "Issuer">>,
       <<"Target", "Company", "Name">> >>

SEC_CODE_PATTERNS ==
    << <<"Security", "Code", "Of", "Issuer">>,
       <<"Issuer", "Securities", "Code">>,
       <<"Security", "Code">> >>

PURPOSE_PATTERNS == << <<"Purpose", "Of", "Holding">> >>

\* the pattern list _find_first_text is called with for purpose_of_holding
purpose_patterns_xbrl ==
    << <<"Purpose", "Of", "Holding">>,
       <<"Purpose", "Of", "Holding", "Of", "Share", "Certificates", "Etc">> >>

FUND_SOURCE_PATTERNS ==
    << <<"Description", "Of", "Funds", "For", "Acquisition">>,
       <<"Funds", "For", "Acquisition">>,
       <<"Source", "Of", "Funds">>,
       <<"Breakdown", "Of", "Acquisition", "Funds">>,
       <<"Acquisition", "Fund">> >>

\* _matches_ratio_pattern
MatchesRatioPattern(name) == NameContainsAny(name, RATIO_PATTERNS, RATIO_EXCLUDE)

\* _matches_shares_pattern
MatchesSharesPattern(name) ==
    NameContainsAny(name, SHARES_PATTERNS, << <<"Abstract">> >>)

\* _matches_holder_pattern; lvh: "jplvh" in full_qname or "lvh" in full_qname
MatchesHolderPattern(name, lvh) ==
    IF NameContainsAny(name, HOLDER_PATTERNS, <<>>) THEN TRUE
    ELSE name = <<"Name">> /\ lvh

\* _matches_target_pattern
MatchesTargetPattern(name) == NameContainsAny(name, TARGET_PATTERNS, <<>>)

\* _matches_sec_code_pattern
MatchesSecCodePattern(name) == NameContainsAny(name, SEC_CODE_PATTERNS, <<>>)

\* _matches_purpose_pattern
MatchesPurposePattern(name) == NameContainsAny(name, PURPOSE_PATTERNS, <<>>)

\* _matches_fund_source_pattern
MatchesFundSourcePattern(name) == NameContainsAny(name, FUND_SOURCE_PATTERNS, <<>>)

\* _matches_joint_holder_name_pattern
MatchesJointHolderNamePattern(name) ==
    In(<<"Joint", "Holder">>, name) /\ In(<<"Name">>, name) /\ ~In(<<"Abstract">>, name)

\* _matches_joint_holder_ratio_pattern
MatchesJointHolderRatioPattern(name) ==
    /\ In(<<"Joint", "Holder">>, name)
    /\ (In(<<"Ratio">>, name) \/ In(<<"Holding", "Ratio">>, name))
    /\ ~In(<<"Abstract">>, name)

\* the predicate with the element-name tests left out (contextRef only)
IsPreviousRatioContextOnly(local_name, context_ref) ==
    In(<<"Prior">>, context_ref) \/ In(<<"Previous">>, context_ref)

\* _is_previous_ratio
IsPreviousRatio(local_name, context_ref) ==
    \/ In(<<"Per", "Last", "Report">>, local_name)
    \/ In(<<"Previous">>, local_name)
    \/ In(<<"Prior">>, context_ref)
    \/ In(<<"Previous">>, context_ref)

\* "Prior" not in context_ref and "Previous" not in context_ref
NotHistorical(context_ref) ==
    ~In(<<"Prior">>, context_ref) /\ ~In(<<"Previous">>, context_ref)

(***************************************************************************)
(* Elements and their text                                                 *)
(*                                                                         *)
(* An element is [tag, ix, name, lvh, ctx, text, scale, sign, order]:      *)
(*   tag    "fact" for an element of an XBRL instance (its own tag is its  *)
(*          name), "nonFraction" / "nonNumeric" for an inline-XBRL element *)
(*          (name is the local part of its name attribute);                *)
(*   ix     whether an inline element's tag is in the namespace the XML    *)
(*          walk looks for (ix_uri); the regex path accepts any prefix;    *)
(*   lvh    whether the namespace / prefix of the name contains "lvh";     *)
(*   ctx    the contextRef attribute, <<>> when absent;                    *)
(*   text   [kind, m, e, pct, sep]: a decimal literal m*10^e ("num"), a    *)
(*          literal beyond the float range ("inf"), a bare dash ("dash"),  *)
(*          other characters ("junk", m tells texts apart) or nothing      *)
(*          ("empty"); pct: a percent sign is in the text; sep: a          *)
(*          thousands separator is in the text;                            *)
(*   scale  [k, n]: absent, an integer n, not an integer ("bad"), or an    *)
(*          integer so large that 10 ** n exceeds the float range ("huge");*)
(*   sign   "" or "-";                                                     *)
(*   order  "nc" when the name attribute precedes contextRef, else "cn".   *)
(***************************************************************************)
NoScale == [k |-> "absent", n |-> 0]
ScaleInt(n) == [k |-> "int", n |-> n]
BadScale == [k |-> "bad", n |-> 0]
HugeScale == [k |-> "huge", n |-> 0]

\* the result of a call: a value, or an exception that left the function
Ok(v) == [raised |-> FALSE, v |-> v]
Raised == [raised |-> TRUE, v |-> None]

\* text.strip() is the empty string (or text is None)
RawEmpty(text) == text.kind = "empty" /\ ~text.pct /\ ~text.sep

\* the string kept for a text field
Str(text) == [k |-> "str", m |-> text, e |-> 0]

\* float(elem.text.strip()): None stands for ValueError / AttributeError
PyFloat(text) ==
    IF text.pct \/ text.sep THEN None
    ELSE IF text.kind = "num" THEN Canon(text.m, text.e)
    ELSE IF text.kind = "inf" THEN Inf
    ELSE None

\* float(re.sub(r"[,、\s　株%％]", "", text)) of the inline paths:
\* None when the cleaned text is empty, a dash or not a number
CleanFloat(text) ==
    IF text.kind = "num" THEN Canon(text.m, text.e)
    ELSE IF text.kind = "inf" THEN Inf
    ELSE None

\* "%" in text or "％" in text
HasPercent(text) == text.pct

\* _parse_ix_number without the scale attribute
ParseIxNumberNoScale(elem) ==
    LET base == CleanFloat(elem.text)
    IN IF IsNone(base) THEN Ok(None)
       ELSE Ok(IF elem.sign = "-" THEN Negate(base) ELSE base)

\* _parse_ix_number: Ok(None), Ok(value) or Raised (OverflowError: neither
\* ValueError nor TypeError, so the except clause lets it through)
ParseIxNumber(elem) ==
    LET base == CleanFloat(elem.text)
        scaled == IF elem.scale.k = "int" THEN Scale10(base, elem.scale.n) ELSE base
    IN IF IsNone(base) THEN Ok(None)
       ELSE IF elem.scale.k = "huge" THEN Raised
       ELSE Ok(IF elem.sign = "-" THEN Negate(scaled) ELSE scaled)

\* int(val): OverflowError for an infinite float
PyInt(v) == IF v.k = "inf" THEN Raised ELSE Ok([k |-> "int", m |-> IntOf(v), e |-> 0])

\* _empty_holding_result
EmptyHoldingResult ==
    [holding_ratio |-> None, previous_holding_ratio |-> None, holder_name |-> None,
     target_company_name |-> None, target_sec_code |-> None, shares_held |-> None,
     purpose_of_holding |-> None, joint_holders |-> None, fund_source |-> None]

\* the keys of a result dict, in insertion order
Keys ==
    <<"holding_ratio", "previous_holding_ratio", "holder_name", "target_company_name",
      "target_sec_code", "shares_held", "purpose_of_holding", "joint_holders",
      "fund_source">>

(***************************************************************************)
(* Traditional-XBRL extractor                                              *)
(***************************************************************************)
\* elem.xpath("local-name()"): an inline element's own tag is nonFraction or
\* nonNumeric, whatever its name attribute says
LocalName(elem) == IF elem.tag = "fact" THEN elem.name ELSE <<elem.tag>>

\* the current/previous store shared by the ratio loops: fill the field the
\* predicate picks, only when it is still None
StoreRatio(res, local, ctx, v) ==
    IF IsPreviousRatio(local, ctx)
    THEN IF IsNone(res.previous_holding_ratio)
         THEN [res EXCEPT !.previous_holding_ratio = v] ELSE res
    ELSE IF IsNone(res.holding_ratio)
         THEN [res EXCEPT !.holding_ratio = v] ELSE res

RECURSIVE ScanRatio(_, _, _, _)
\* the loop over the elements one xpath query returned (edinet.py 451-466 and
\* 475-491): skips holds the names that exclude an element
ScanRatio(elems, pattern, skips, res) ==
    IF elems = <<>> THEN res
    ELSE LET x == Head(elems)
             local == LocalName(x)
             f == PyFloat(x.text)
         IN IF ~In(pattern, local) \/ AnyIn(skips, local) \/ IsNone(f)
            THEN ScanRatio(Tail(elems), pattern, skips, res)
            ELSE ScanRatio(Tail(elems), pattern, skips,
                           StoreRatio(res, local, x.ctx, NormalizeRatio(f)))

RECURSIVE RatioPatternLoop(_, _, _)
\* for pattern in ratio_patterns, with its break
RatioPatternLoop(elems, patterns, res) ==
    IF patterns = <<>> THEN res
    ELSE LET r == ScanRatio(elems, Head(patterns),
                            << <<"Abstract">>, <<"Each", "Large", "Shareholder">> >>, res)
         IN IF ~IsNone(r.holding_ratio) /\ ~IsNone(r.previous_holding_ratio) THEN r
            ELSE RatioPatternLoop(elems, Tail(patterns), r)

\* the ratio part of _extract_from_xbrl: the pattern loop, then the broader scan
XbrlRatios(elems) ==
    LET r == RatioPatternLoop(elems, ratio_patterns, EmptyHoldingResult)
    IN IF IsNone(r.holding_ratio)
       THEN ScanRatio(elems, <<"Holding", "Ratio">>, RATIO_EXCLUDE, r)
       ELSE r

RECURSIVE FirstTextOf(_, _)
\* the inner loop of _find_first_text for one pattern
FirstTextOf(elems, pattern) ==
    IF elems = <<>> THEN None
    ELSE IF In(pattern, LocalName(Head(elems))) /\ ~RawEmpty(Head(elems).text)
         THEN Str(Head(elems).text)
         ELSE FirstTextOf(Tail(elems), pattern)

RECURSIVE FindFirstText(_, _)
\* _find_first_text
FindFirstText(elems, patterns) ==
    IF patterns = <<>> THEN None
    ELSE LET t == FirstTextOf(elems, Head(patterns))
         IN IF ~IsNone(t) THEN t ELSE FindFirstText(elems, Tail(patterns))

RECURSIVE FirstIntOf(_, _)
\* the inner loop of _find_first_int for one pattern: the value is decoded
\* before the contextRef is looked at
FirstIntOf(elems, pattern) ==
    IF elems = <<>> THEN Ok(None)
    ELSE LET x == Head(elems)
             f == PyFloat(x.text)
         IN IF ~In(pattern, LocalName(x)) \/ IsNone(f) THEN FirstIntOf(Tail(elems), pattern)
            ELSE IF PyInt(f).raised THEN Raised
            ELSE IF NotHistorical(x.ctx) THEN PyInt(f)
            ELSE FirstIntOf(Tail(elems), pattern)

RECURSIVE FindFirstInt(_, _)
\* _find_first_int
FindFirstInt(elems, patterns) ==
    IF patterns = <<>> THEN Ok(None)
    ELSE LET t == FirstIntOf(elems, Head(patterns))
         IN IF t.raised \/ ~IsNone(t.v) THEN t ELSE FindFirstInt(elems, Tail(patterns))

RECURSIVE LvhName(_)
\* the jplvh_cor fallback of holder_name: local-name() = 'Name'
LvhName(elems) ==
    IF elems = <<>> THEN None
    ELSE LET x == Head(elems)
         IN IF LocalName(x) = <<"Name">> /\ x.lvh /\ ~RawEmpty(x.text) THEN Str(x.text)
            ELSE LvhName(Tail(elems))

\* a list of joint holders, as the JSON string holds it
JsonList(items) == [k |-> "list", m |-> items, e |-> 0]

RECURSIVE JointHolderNames(_)
\* strategy 1 of _extract_joint_holders_xbrl
JointHolderNames(elems) ==
    IF elems = <<>> THEN <<>>
    ELSE LET x == Head(elems)
             local == LocalName(x)
         IN IF In(<<"Joint", "Holder">>, local) /\ In(<<"Name">>, local)
               /\ ~RawEmpty(x.text) /\ ~In(<<"Abstract">>, local)
            THEN <<[name |-> Str(x.text), ratio |-> None]>> \o JointHolderNames(Tail(elems))
            ELSE JointHolderNames(Tail(elems))

RECURSIVE JointHolderRatios(_, _, _)
\* strategy 2 of _extract_joint_holders_xbrl
JointHolderRatios(elems, holders, ratio_idx) ==
    IF elems = <<>> THEN holders
    ELSE LET x == Head(elems)
             local == LocalName(x)
             f == PyFloat(x.text)
         IN IF In(<<"Joint", "Holder">>, local)
               /\ (In(<<"Ratio">>, local) \/ In(<<"Holding", "Ratio">>, local))
               /\ ~In(<<"Abstract">>, local) /\ ~IsNone(f)
            THEN JointHolderRatios(Tail(elems),
                    IF ratio_idx < Len(holders)
                    THEN [holders EXCEPT ![ratio_idx + 1].ratio = NormalizeRatio(f)]
                    ELSE holders,
                    ratio_idx + 1)
            ELSE JointHolderRatios(Tail(elems), holders, ratio_idx)

RECURSIVE ExactNames(_, _)
\* strategy 3 of _extract_joint_holders_xbrl for one exact local name
ExactNames(elems, pattern) ==
    IF elems = <<>> THEN <<>>
    ELSE (IF LocalName(Head(elems)) = pattern /\ ~RawEmpty(Head(elems).text)
          THEN <<[name |-> Str(Head(elems).text), ratio |-> None]>> ELSE <<>>)
         \o ExactNames(Tail(elems), pattern)

\* _extract_joint_holders_xbrl
ExtractJointHoldersXbrl(elems) ==
    LET paired == JointHolderRatios(elems, JointHolderNames(elems), 0)
        holders == IF paired # <<>> THEN paired
                   ELSE ExactNames(elems, <<"Name", "Of", "Joint", "Holder">>)
                            \o ExactNames(elems, <<"Joint", "Holder", "Name">>)
    IN IF holders # <<>> THEN JsonList(holders) ELSE None

\* _extract_from_xbrl on a document d = [wellformed, elems]
ExtractFromXbrl(d) ==
    IF ~d.wellformed THEN Ok(EmptyHoldingResult)
    ELSE LET elems == d.elems
             r == XbrlRatios(elems)
             holder == FindFirstText(elems, HOLDER_PATTERNS)
             shares == FindFirstInt(elems, shares_patterns_xbrl)
         IN IF shares.raised THEN Raised
            ELSE Ok([r EXCEPT
                 !.holder_name = IF IsNone(holder) THEN LvhName(elems) ELSE holder,
                 !.target_company_name = FindFirstText(elems, TARGET_PATTERNS),
                 !.target_sec_code = FindFirstText(elems, SEC_CODE_PATTERNS),
                 !.shares_held = shares.v,
                 !.purpose_of_holding = FindFirstText(elems, purpose_patterns_xbrl),
                 !.joint_holders = ExtractJointHoldersXbrl(elems),
                 !.fund_source = FindFirstText(elems, FUND_SOURCE_PATTERNS)])

(***************************************************************************)
(* Inline-XBRL extractors                                                  *)
(***************************************************************************)
\* fill a text field only while it is empty
FillText(res, key, text) ==
    IF IsNone(res[key]) THEN [res EXCEPT ![key] = Str(text)] ELSE res

\* the ratio branch of the XML walk with the percent test left out
XmlRatioValueAlwaysNormalized(x, v) == NormalizeRatio(v)

\* the value the XML walk stores for a decoded ratio v of element x
XmlRatioValue(x, v) == IF ~HasPercent(x.text) THEN NormalizeRatio(v) ELSE v

\* the body of the loop of _extract_inline_via_xml for one element; acc is
\* [rec, names, ratios] (result, _inline_jh_names, _inline_jh_ratios)
InlineXmlStep(acc, x) ==
    LET is_nonfraction == x.tag = "nonFraction" /\ x.ix
        is_nonnumeric == x.tag = "nonNumeric" /\ x.ix
        local_name == x.name
        parsed == ParseIxNumber(x)
        res == acc.rec
    IN IF ~is_nonfraction /\ ~is_nonnumeric THEN Ok(acc)
       ELSE IF local_name = <<>> \/ RawEmpty(x.text) THEN Ok(acc)
       ELSE IF is_nonfraction /\ MatchesRatioPattern(local_name) THEN
            IF parsed.raised THEN Raised
            ELSE IF IsNone(parsed.v) THEN Ok(acc)
            ELSE Ok([acc EXCEPT !.rec =
                        StoreRatio(res, local_name, x.ctx, XmlRatioValue(x, parsed.v))])
       ELSE IF is_nonfraction /\ MatchesSharesPattern(local_name) THEN
            IF parsed.raised THEN Raised
            ELSE IF IsNone(parsed.v) \/ ~NotHistorical(x.ctx) \/ ~IsNone(res.shares_held)
                 THEN Ok(acc)
            ELSE IF PyInt(parsed.v).raised THEN Raised
            ELSE Ok([acc EXCEPT !.rec.shares_held = PyInt(parsed.v).v])
       ELSE IF is_nonnumeric THEN
            IF MatchesHolderPattern(local_name, x.lvh)
                 THEN Ok([acc EXCEPT !.rec = FillText(res, "holder_name", x.text)])
            ELSE IF MatchesTargetPattern(local_name)
                 THEN Ok([acc EXCEPT !.rec = FillText(res, "target_company_name", x.text)])
            ELSE IF MatchesSecCodePattern(local_name)
                 THEN Ok([acc EXCEPT !.rec = FillText(res, "target_sec_code", x.text)])
            ELSE IF MatchesPurposePattern(local_name)
                 THEN Ok([acc EXCEPT !.rec = FillText(res, "purpose_of_holding", x.text)])
            ELSE IF MatchesFundSourcePattern(local_name)
                 THEN Ok([acc EXCEPT !.rec = FillText(res, "fund_source", x.text)])
            ELSE IF MatchesJointHolderNamePattern(local_name)
                 THEN Ok([acc EXCEPT !.names = Append(@, Str(x.text))])
            ELSE Ok(acc)
       ELSE IF is_nonfraction /\ MatchesJointHolderRatioPattern(local_name) THEN
            IF parsed.raised THEN Raised
            ELSE IF IsNone(parsed.v) THEN Ok(acc)
            ELSE Ok([acc EXCEPT !.ratios = Append(@, XmlRatioValue(x, parsed.v))])
       ELSE Ok(acc)

RECURSIVE InlineXmlLoop(_, _)
\* for elem in tree.iter()
InlineXmlLoop(elems, acc) ==
    IF elems = <<>> THEN Ok(acc)
    ELSE LET r == InlineXmlStep(acc, Head(elems))
         IN IF r.raised THEN Raised ELSE InlineXmlLoop(Tail(elems), r.v)

\* the joint holders assembled from the names alone, every ratio None
AssembleJointHoldersNamesOnly(names, ratios) ==
    JsonList([i \in 1..Len(names) |-> [name |-> names[i], ratio |-> None]])

\* the joint holders assembled from the two parallel lists
AssembleJointHolders(names, ratios) ==
    JsonList([i \in 1..Len(names) |->
                [name |-> names[i],
                 ratio |-> IF i <= Len(ratios) THEN ratios[i] ELSE None]])

\* _extract_inline_via_xml on the elements of a parsed tree
ExtractInlineViaXml(elems) ==
    LET r == InlineXmlLoop(elems, [rec |-> EmptyHoldingResult, names |-> <<>>, ratios |-> <<>>])
    IN IF r.raised THEN Raised
       ELSE IF r.v.names # <<>>
            THEN Ok([r.v.rec EXCEPT
                       !.joint_holders = AssembleJointHolders(r.v.names, r.v.ratios)])
            ELSE Ok(r.v.rec)

\* the ratio branch of the regex path with the percent test left out
RegexRatioValueAlwaysNormalized(x, v) == NormalizeRatio(v)

\* the value the regex path stores for a decoded ratio v of element x
RegexRatioValue(x, v) == IF ~HasPercent(x.text) THEN NormalizeRatio(v) ELSE v

\* _apply_nonfraction_regex: the match's name, contextRef and text are x's
ApplyNonfractionRegex(res, x) ==
    LET local_name == x.name
        v == CleanFloat(x.text)
    IN IF IsNone(v) THEN Ok(res)
       ELSE IF MatchesRatioPattern(local_name)
            THEN Ok(StoreRatio(res, local_name, x.ctx, RegexRatioValue(x, v)))
       ELSE IF MatchesSharesPattern(local_name)
            THEN IF ~NotHistorical(x.ctx) \/ ~IsNone(res.shares_held) THEN Ok(res)
                 ELSE IF PyInt(v).raised THEN Raised
                 ELSE Ok([res EXCEPT !.shares_held = PyInt(v).v])
       ELSE Ok(res)

RECURSIVE NonfractionPass(_, _, _)
\* one finditer loop over the nonFraction matches: nonfrac_pat finds the
\* elements whose name attribute precedes contextRef ("nc"), nonfrac_pat2
\* those with contextRef first ("cn"); both need a contextRef
NonfractionPass(elems, order, res) ==
    IF elems = <<>> THEN Ok(res)
    ELSE LET x == Head(elems)
         IN IF x.tag = "nonFraction" /\ x.name # <<>> /\ x.ctx # <<>> /\ x.order = order
            THEN LET r == ApplyNonfractionRegex(res, x)
                 IN IF r.raised THEN Raised ELSE NonfractionPass(Tail(elems), order, r.v)
            ELSE NonfractionPass(Tail(elems), order, res)

\* a joint holder appended by the regex path: an entry with a name only
AppendNameOnly(jh, text) ==
    JsonList((IF IsNone(jh) THEN <<>> ELSE jh.m)
                \o <<[name |-> Str(text), ratio |-> [k |-> "absent", m |-> 0, e |-> 0]]>>)

RECURSIVE NonnumericPass(_, _)
\* the finditer loop over the nonNumeric matches
NonnumericPass(elems, res) ==
    IF elems = <<>> THEN res
    ELSE LET x == Head(elems)
             local_name == x.name
             r == IF x.tag # "nonNumeric" \/ x.name = <<>> \/ RawEmpty(x.text) THEN res
                  ELSE IF MatchesHolderPattern(local_name, x.lvh)
                       THEN FillText(res, "holder_name", x.text)
                  ELSE IF MatchesTargetPattern(local_name)
                       THEN FillText(res, "target_company_name", x.text)
                  ELSE IF MatchesSecCodePattern(local_name)
                       THEN FillText(res, "target_sec_code", x.text)
                  ELSE IF MatchesPurposePattern(local_name)
                       THEN FillText(res, "purpose_of_holding", x.text)
                  ELSE IF MatchesFundSourcePattern(local_name)
                       THEN FillText(res, "fund_source", x.text)
                  ELSE IF MatchesJointHolderNamePattern(local_name)
                       THEN [res EXCEPT !.joint_holders = AppendNameOnly(@, x.text)]
                  ELSE res
         IN NonnumericPass(Tail(elems), r)

\* _extract_inline_via_regex on the tag-shaped elements of the decoded bytes
ExtractInlineViaRegex(elems) ==
    LET p1 == NonfractionPass(elems, "nc", EmptyHoldingResult)
        p2 == NonfractionPass(elems, "cn", p1.v)
    IN IF p1.raised \/ p2.raised THEN Raised
       ELSE Ok(NonnumericPass(elems, p2.v))

\* the XML results kept, the regex results dropped
GapFillKeepFirst(res, res2) == res

\* edinet.py 632-634: the gaps of result filled from result2
GapFill(res, res2) ==
    [key \in DOMAIN res |->
        IF IsNone(res[key]) /\ ~IsNone(res2[key]) THEN res2[key] ELSE res[key]]

\* _extract_from_inline_xbrl without its regex pass
ExtractFromInlineXbrlXmlOnly(d) ==
    IF d.wellformed THEN ExtractInlineViaXml(d.elems) ELSE Ok(EmptyHoldingResult)

\* _extract_from_inline_xbrl: the XML walk (an XMLSyntaxError or any other
\* exception of it leaves result empty), then the regex pass, whose exceptions
\* are not caught here
ExtractFromInlineXbrl(d) ==
    LET xml == IF d.wellformed THEN ExtractInlineViaXml(d.elems) ELSE Raised
        res == IF xml.raised THEN EmptyHoldingResult ELSE xml.v
        res2 == ExtractInlineViaRegex(d.elems)
    IN IF ~IsNone(res.holding_ratio) THEN Ok(res)
       ELSE IF res2.raised THEN Raised
       ELSE Ok(GapFill(res, res2.v))

(***************************************************************************)
(* Candidate File Selector                                                 *)
(*                                                                         *)
(* A member path is its extension and the set of area markers it contains: *)
(* f.endswith(".xbrl") is ext = "xbrl", "PublicDoc" in f is membership of  *)
(* "PublicDoc" in areas.                                                   *)
(***************************************************************************)
EndsWith(f, ext) == f.ext = ext
Contains(f, marker) == marker \in f.areas

IsInline(f) == EndsWith(f, "htm") \/ EndsWith(f, "xhtml")

\* xbrl_pub
XbrlPub(files) ==
    SelectSeq(files, LAMBDA f : EndsWith(f, "xbrl") /\ Contains(f, "PublicDoc"))

\* the fallback list without its two exclusions
XbrlAnyNoExclusion(files) ==
    SelectSeq(files, LAMBDA f : EndsWith(f, "xbrl"))

\* xbrl_any
XbrlAny(files) ==
    SelectSeq(files, LAMBDA f : /\ EndsWith(f, "xbrl")
                                /\ ~Contains(f, "AuditDoc")
                                /\ ~Contains(f, "__MACOSX"))

\* htm_pub
HtmPub(files) ==
    SelectSeq(files, LAMBDA f : Contains(f, "PublicDoc") /\ IsInline(f))

\* htm_any
HtmAny(files) ==
    SelectSeq(files, LAMBDA f : /\ IsInline(f)
                                /\ ~Contains(f, "AuditDoc")
                                /\ ~Contains(f, "__MACOSX"))

\* a or b, for two Python lists
ListOr(a, b) == IF a # <<>> THEN a ELSE b

\* _discover_xbrl_files: <<xbrl_files, htm_files>>
DiscoverXbrlFiles(files) ==
    <<ListOr(XbrlPub(files), XbrlAny(files)), ListOr(HtmPub(files), HtmAny(files))>>

\* the variables of the candidate selection, when no selection is running
IdleSel == all_files = <<>> /\ xbrl_files = <<>> /\ htm_files = <<>>

\* the variables of _normalize_ratio, when it is not the function called
IdleNorm == val = None /\ norm_out = NoCall

\* the variables of parse_xbrl_for_holding_data, when it is not running
IdleParse ==
    /\ zip_content = [kind |-> "empty", members |-> <<>>]
    /\ result = EmptyHoldingResult
    /\ partial_results = <<>>
    /\ htm_i = 1
    /\ reads = <<>>
    /\ exc = ""
    /\ ret = NoCall
    /\ escaped = FALSE

\* the variables of a single extractor call, when there is none
IdleExtract ==
    /\ doc = [wellformed |-> FALSE, elems |-> <<>>]
    /\ strategy = ""
    /\ out = Ok(NoCall)

\* diagnose_xbrl's info, when it is not the function called
IdleDiag == info = NoCall

\* a call without the last_event_id argument
NoArg == [given |-> FALSE, none |-> FALSE, id |-> 0]

\* a call of a broadcaster method and how it ended: the argument passed for
\* last_event_id, the exception raised ("" for none), the client id it was
\* about and the clients it dropped
SseOp(name, arg, raised, client, dead) ==
    [name |-> name, arg |-> arg, raised |-> raised, client |-> client, dead |-> dead]

\* SSEBroadcaster.__init__
NewBroadcaster ==
    /\ clients = <<>>
    /\ next_id = 0
    /\ sse_op = SseOp("", NoArg, "", -1, {})
    /\ sent = <<>>

\* the variables of the broadcaster, when none of its methods is called
IdleSSE == NewBroadcaster

\* the poll_edinet calls that can be in progress together: the call made by
\* run_poller's loop and the task trigger_poll has created
Runs == {"run_poller", "trigger_poll"}

\* a poll_edinet call that is not in progress; docs holds the documents its
\* loop has not finished with, row the doc_id of the row it has inserted and
\* not yet committed
IdleRun == [pc |-> "idle", docs |-> <<>>, new_count |-> 0, row |-> ""]

\* the database and the poller of a process that has polled nothing yet
IdlePoll ==
    /\ filings = <<>>
    /\ runs = [r \in Runs |-> IdleRun]
    /\ announced = <<>>
    /\ demo_seeded = FALSE
    /\ polls_started = 0

\* the poll endpoint before its first request, the clock not looked at
IdleLimit ==
    /\ now = 0
    /\ poll_last_called = 0
    /\ answers = <<>>

\* the variables of the poller and of the poll endpoint, when neither runs
\* no document list asked for
IdleFetch == upstream = NoCall /\ fetched = NoCall

\* the retry of the enrichment before its first cycle, the table empty
IdleRetry ==
    /\ rows = <<>>
    /\ _retry_offset = 0
    /\ total_unparsed = 0
    /\ retry_filings = <<>>

IdleSvc == IdlePoll /\ IdleLimit /\ IdleFetch /\ IdleRetry

(***************************************************************************)
(* The documents tried                                                     *)
(***************************************************************************)
Num(m, e) == [kind |-> "num", m |-> m, e |-> e, pct |-> FALSE, sep |-> FALSE]
Pct(m, e) == [kind |-> "num", m |-> m, e |-> e, pct |-> TRUE, sep |-> FALSE]
Sep(m, e) == [kind |-> "num", m |-> m, e |-> e, pct |-> FALSE, sep |-> TRUE]
Junk(id) == [kind |-> "junk", m |-> id, e |-> 0, pct |-> FALSE, sep |-> FALSE]
Dash == [kind |-> "dash", m |-> 0, e |-> 0, pct |-> FALSE, sep |-> FALSE]
InfText == [kind |-> "inf", m |-> 0, e |-> 0, pct |-> FALSE, sep |-> FALSE]
EmptyText == [kind |-> "empty", m |-> 0, e |-> 0, pct |-> FALSE, sep |-> FALSE]
PercentOnly == [kind |-> "empty", m |-> 0, e |-> 0, pct |-> TRUE, sep |-> FALSE]

Elem(tag, name, ctx, text) ==
    [tag |-> tag, ix |-> TRUE, name |-> name, lvh |-> FALSE, ctx |-> ctx, text |-> text,
     scale |-> NoScale, sign |-> "", order |-> "nc"]

nHoldingRatio == <<"Holding", "Ratio", "Of", "Share", "Certificates", "Etc">>
nPerLastReport == nHoldingRatio \o <<"Per", "Last", "Report">>
nPreviousHoldingRatio == <<"Previous">> \o nHoldingRatio
nTotalShareholdingRatio ==
    <<"Total", "Shareholding", "Ratio", "Of", "Share", "Certificates", "Etc">>
nAtTimeOfPreviousReport ==
    <<"Ratio", "Of", "Share", "Certificates", "Etc", "At", "Time", "Of", "Previous", "Report">>
nHoldingRatioAbstract == nHoldingRatio \o <<"Abstract">>
nEachLargeShareholder ==
    <<"Shareholding", "Ratio", "Each", "Large", "Shareholder", "1">>
nHoldingRatioOfJointHolder == <<"Holding", "Ratio", "Of", "Joint", "Holder">>
nShareholdingRatio == <<"Shareholding", "Ratio">>
nHoldingRatioOfShares == <<"Holding", "Ratio", "Of", "Shares">>
nStocksHeld == <<"Total", "Number", "Of", "Stocks", "Etc", "Held">>
nReporter == <<"Name", "Of", "Large", "Shareholding", "Reporter">>
nName == <<"Name">>
nIssuer == <<"Name", "Of", "Issuer">>
nSecurityCode == <<"Security", "Code", "Of", "Issuer">>
nPurpose == <<"Purpose", "Of", "Holding">>
nFunds == <<"Funds", "For", "Acquisition">>
nNameOfJointHolder == <<"Name", "Of", "Joint", "Holder">>

cFiling == <<"Filing", "Date", "Instant">>
cPrior == <<"Prior", "Filing", "Date", "Instant">>
cPrevious == <<"Previous", "Year", "Instant">>
cAbsent == <<>>

RatioNames ==
    {nHoldingRatio, nPerLastReport, nPreviousHoldingRatio, nTotalShareholdingRatio,
     nAtTimeOfPreviousReport, nHoldingRatioAbstract, nEachLargeShareholder,
     nHoldingRatioOfJointHolder, nShareholdingRatio, nHoldingRatioOfShares}

Contexts == {cFiling, cPrior, cPrevious, cAbsent}

NumericTexts ==
    {Num(523, -4), Num(1, 0), Num(745, -2), Pct(745, -2), Pct(5, -1), Num(5, -3),
     Num(2500, 0), Sep(2500, 0), Num(0, 0), Num(15, -7), Dash, Junk(1), InfText,
     EmptyText, PercentOnly}

Scales == {NoScale, ScaleInt(3), ScaleInt(-2), BadScale, HugeScale}

\* every ratio name under every contextRef, as an instance element and as an
\* inline element in both attribute orders
ClassProbes ==
    {[Elem(tag, n, c, t) EXCEPT !.order = o] :
        tag \in {"fact", "nonFraction"}, n \in RatioNames, c \in Contexts,
        t \in {Num(523, -4), Pct(5, -1)}, o \in {"nc", "cn"}}

\* every text under every scale and sign, on a ratio and on a share count
DecodeProbes ==
    {[Elem("nonFraction", n, cFiling, t) EXCEPT !.scale = sc, !.sign = sg, !.ix = ix] :
        n \in {nHoldingRatio, nStocksHeld}, t \in NumericTexts, sc \in Scales,
        sg \in {"", "-"}, ix \in BOOLEAN}

\* the instance elements: every text on a ratio and on a share count
FactProbes ==
    {Elem("fact", n, c, t) :
        n \in {nHoldingRatio, nStocksHeld}, c \in {cFiling, cPrior}, t \in NumericTexts}

ProbeElems == ClassProbes \cup DecodeProbes \cup FactProbes

\* the elements the longer documents are made of
CoreElems ==
    {Elem("fact", nHoldingRatio, cFiling, Num(523, -4)),
     Elem("fact", nHoldingRatio, cPrior, Num(41, -3)),
     Elem("fact", nStocksHeld, cFiling, InfText),
     Elem("fact", nReporter, cFiling, Junk(1)),
     Elem("nonFraction", nHoldingRatio, cFiling, Pct(745, -2)),
     [Elem("nonFraction", nTotalShareholdingRatio, cFiling, Num(5, -3)) EXCEPT !.order = "cn"],
     Elem("nonFraction", nPerLastReport, cFiling, Num(62, -1)),
     Elem("nonFraction", nHoldingRatio, cFiling, Junk(1)),
     [Elem("nonFraction", nStocksHeld, cFiling, Num(2500, 0)) EXCEPT !.scale = ScaleInt(3)],
     [Elem("nonFraction", nHoldingRatio, cFiling, Num(523, -2)) EXCEPT !.scale = HugeScale],
     Elem("nonNumeric", nReporter, cFiling, Junk(1)),
     Elem("nonNumeric", nReporter, cFiling, Junk(2)),
     Elem("nonNumeric", nIssuer, cFiling, Junk(3))}

\* most elements of a document built from CoreElems
MaxElems == 2

nJointHolder1Name == <<"Joint", "Holder", "1", "Name">>
nJointHolder1HoldingRatio == <<"Joint", "Holder", "1", "Holding", "Ratio">>
nJointHolderNameAbstract == <<"Joint", "Holder", "Name", "Abstract">>

\* a joint-holder element in the flavor of an instance ("fact") or of an
\* inline document ("ix"): a name element there is a nonNumeric, a ratio
\* element a nonFraction
JointElem(flavor, kind, name, text) ==
    Elem(IF flavor = "fact" THEN "fact"
         ELSE IF kind = "name" THEN "nonNumeric" ELSE "nonFraction",
         name, cFiling, text)

\* the joint-holder elements of one flavor: names, an empty name, an abstract
\* header, ratios that decode and ratios that do not
JointElems(flavor) ==
    {JointElem(flavor, "name", nJointHolder1Name, Junk(5)),
     JointElem(flavor, "name", nNameOfJointHolder, Junk(6)),
     JointElem(flavor, "name", nJointHolder1Name, EmptyText),
     JointElem(flavor, "name", nJointHolderNameAbstract, Junk(7)),
     JointElem(flavor, "ratio", nJointHolder1HoldingRatio, Num(32, -1)),
     JointElem(flavor, "ratio", nHoldingRatioOfJointHolder, Num(15, -3)),
     JointElem(flavor, "ratio", nHoldingRatioOfJointHolder, Pct(21, -1)),
     JointElem(flavor, "ratio", nJointHolder1HoldingRatio, Dash)}

\* most elements of a joint-holder document
MaxJoint == 3

nReporterName == <<"Reporter", "Name">>
nIssuerName == <<"Issuer", "Name">>
nSourceOfFunds == <<"Source", "Of", "Funds">>

\* a text fact in the flavor of an instance or of an inline document
TextFact(flavor, name, text) ==
    Elem(IF flavor = "fact" THEN "fact" ELSE "nonNumeric", name, cFiling, text)

\* text facts under patterns of different rank of the same field, one of them
\* without text
TextFacts(flavor) ==
    {TextFact(flavor, nReporter, Junk(1)),
     TextFact(flavor, nReporterName, Junk(2)),
     TextFact(flavor, nReporter, EmptyText),
     TextFact(flavor, nIssuerName, Junk(3)),
     TextFact(flavor, nIssuer, Junk(4)),
     TextFact(flavor, nSourceOfFunds, Junk(5)),
     TextFact(flavor, nFunds, Junk(6))}

\* a numeric fact in the flavor of an instance or of an inline document
NumFact(flavor, name, ctx, text) ==
    Elem(IF flavor = "fact" THEN "fact" ELSE "nonFraction", name, ctx, text)

\* share counts of the filing date and of earlier reports, one of them no
\* number and one beyond every integer
ShareFacts(flavor) ==
    {NumFact(flavor, nStocksHeld, cPrior, Num(1000, 0)),
     NumFact(flavor, nStocksHeld, cPrevious, Num(3000, 0)),
     NumFact(flavor, nStocksHeld, cFiling, Num(2500, 0)),
     NumFact(flavor, nStocksHeld, cFiling, Num(4000, 0)),
     NumFact(flavor, nStocksHeld, cFiling, Junk(1)),
     NumFact(flavor, nStocksHeld, cPrior, InfText)}

\* ratios under specific patterns of different rank, ratios only the broader
\* scan finds, current and previous ones, and one that is no number
RatioFacts(flavor) ==
    {NumFact(flavor, nHoldingRatio, cFiling, Num(523, -2)),
     NumFact(flavor, nTotalShareholdingRatio, cFiling, Num(745, -2)),
     NumFact(flavor, nPerLastReport, cFiling, Num(41, -1)),
     NumFact(flavor, nAtTimeOfPreviousReport, cFiling, Num(62, -1)),
     NumFact(flavor, nHoldingRatioOfShares, cFiling, Num(81, -1)),
     NumFact(flavor, nHoldingRatioOfShares, cPrior, Num(93, -1)),
     NumFact(flavor, nHoldingRatio, cFiling, Junk(1))}

\* inline numeric facts competing for the same field, each with its name
\* attribute before ("nc") and after ("cn") its contextRef attribute
OrderFacts ==
    {[NumFact("ix", n[1], cFiling, n[2]) EXCEPT !.order = o] :
        n \in {<<nHoldingRatio, Num(523, -2)>>, <<nHoldingRatio, Num(745, -2)>>,
               <<nPerLastReport, Num(41, -1)>>, <<nPerLastReport, Num(62, -1)>>,
               <<nStocksHeld, Num(2500, 0)>>, <<nStocksHeld, Num(4000, 0)>>},
        o \in {"nc", "cn"}}

\* most facts of a document built from one group of field facts
MaxFacts == 3

(***************************************************************************)
(* SpecExtract: one extractor called on one document                       *)
(***************************************************************************)
InitExtract ==
    /\ \/ \E x \in ProbeElems, wf \in BOOLEAN :
             doc = [wellformed |-> wf, elems |-> <<x>>]
       \/ \E k \in 0..MaxElems, wf \in BOOLEAN :
             \E es \in [1..k -> CoreElems] : doc = [wellformed |-> wf, elems |-> es]
       \/ \E k \in 1..MaxJoint, flavor \in {"fact", "ix"} :
             \E es \in [1..k -> JointElems(flavor)] :
                 doc = [wellformed |-> TRUE, elems |-> es]
       \/ \E k \in 1..MaxFacts, flavor \in {"fact", "ix"} :
             \E es \in [1..k -> TextFacts(flavor)] \cup [1..k -> ShareFacts(flavor)]
                          \cup [1..k -> RatioFacts(flavor)] \cup [1..k -> OrderFacts] :
                 doc = [wellformed |-> TRUE, elems |-> es]
    /\ strategy = ""
    /\ out = Ok(NoCall)
    /\ pc = "extract"
    /\ IdleNorm /\ IdleSel /\ IdleParse /\ IdleDiag /\ IdleSSE /\ IdleSvc

\* the call returns: what every extractor call leaves unchanged
Returned(s) ==
    /\ pc = "extract"
    /\ strategy' = s
    /\ pc' = "extracted"
    /\ UNCHANGED <<doc, normVars, diagVars, sseVars, svcVars, selVars, parseVars>>

\* _extract_from_xbrl(xbrl_bytes)
ExtractFromXbrlCall == Returned("xbrl") /\ out' = ExtractFromXbrl(doc)

\* _extract_inline_via_xml(tree), for bytes that parse
ExtractInlineViaXmlCall ==
    /\ doc.wellformed
    /\ Returned("xml")
    /\ out' = ExtractInlineViaXml(doc.elems)

\* _extract_inline_via_regex(htm_bytes)
ExtractInlineViaRegexCall == Returned("regex") /\ out' = ExtractInlineViaRegex(doc.elems)

\* _extract_from_inline_xbrl(htm_bytes)
ExtractFromInlineXbrlCall == Returned("inline") /\ out' = ExtractFromInlineXbrl(doc)

\* _parse_ix_number(elem, text) on the first element of the document
ParseIxNumberCall ==
    /\ doc.elems # <<>>
    /\ doc.elems[1].tag = "nonFraction"
    /\ Returned("parse_ix")
    /\ out' = ParseIxNumber(doc.elems[1])

NextExtract ==
    \/ ExtractFromXbrlCall
    \/ ExtractInlineViaXmlCall
    \/ ExtractInlineViaRegexCall
    \/ ExtractFromInlineXbrlCall
    \/ ParseIxNumberCall

SpecExtract == InitExtract /\ [][NextExtract]_vars

(***************************************************************************)
(* Extraction Orchestrator: parse_xbrl_for_holding_data                    *)
(*                                                                         *)
(* zip_content is [kind, members]: kind "zip" for bytes ZipFile opens,     *)
(* "garbage" and "empty" for bytes it refuses with BadZipFile.  A member   *)
(* is [path, read, doc]: read is "ok" or the exception zf.read raises for  *)
(* it (BadZipFile for a bad CRC, RuntimeError for an encrypted member).    *)
(***************************************************************************)
\* the except clauses of parse_xbrl_for_holding_data: BadZipFile only
CatchesBadZipFileOnly(e) == e = "BadZipFile"

\* the exceptions raised here that are subclasses of Exception
ExceptionSubclasses == {"BadZipFile", "RuntimeError", "OverflowError"}

\* the except clauses of parse_xbrl_for_holding_data: BadZipFile, then Exception
Catches(e) == e = "BadZipFile" \/ e \in ExceptionSubclasses

\* the test the early returns make on a candidate's record: never taken
YieldsRatioNever(rec) == FALSE

\* result["holding_ratio"] is not None
YieldsRatio(rec) == ~IsNone(rec.holding_ratio)

\* the inner loop of the merge with the None test on merged[key] left out:
\* a later file overwrites
MergeOneLastWins(merged, partial) ==
    [key \in DOMAIN merged |-> IF ~IsNone(partial[key]) THEN partial[key] ELSE merged[key]]

\* for key in merged: fill merged[key] from partial[key] when it is None
MergeOne(merged, partial) ==
    [key \in DOMAIN merged |->
        IF IsNone(merged[key]) /\ ~IsNone(partial[key]) THEN partial[key] ELSE merged[key]]

RECURSIVE MergePartials(_, _)
\* for partial in partial_results
MergePartials(merged, partials) ==
    IF partials = <<>> THEN merged
    ELSE MergePartials(MergeOne(merged, Head(partials)), Tail(partials))

\* the merge started from an empty record instead of a copy of result
MergedOverEmpty(res, partials) == MergePartials(EmptyHoldingResult, partials)

\* merged = dict(result), then the loop over partial_results
MergedOver(res, partials) == MergePartials(res, partials)

\* zf.read(name): the member stored under that path
Member(path) ==
    zip_content.members[CHOOSE i \in 1..Len(zip_content.members) :
                            zip_content.members[i].path = path]

\* the try block ends with exception e: the handler logs and the function
\* returns result, or no handler matches and e leaves the function
Throw(e) ==
    /\ exc' = e
    /\ pc' = "done"
    /\ IF Catches(e)
       THEN ret' = result /\ escaped' = FALSE
       ELSE ret' = ret /\ escaped' = TRUE

\* with zipfile.ZipFile(...) as zf, namelist and _discover_xbrl_files
Open ==
    /\ pc = "open"
    /\ IF zip_content.kind # "zip"
       THEN /\ Throw("BadZipFile")
            /\ UNCHANGED <<selVars, result, partial_results, htm_i, reads>>
       ELSE LET names == [i \in 1..Len(zip_content.members) |-> zip_content.members[i].path]
            IN /\ all_files' = names
               /\ xbrl_files' = DiscoverXbrlFiles(names)[1]
               /\ htm_files' = DiscoverXbrlFiles(names)[2]
               /\ pc' = "try_xbrl"
               /\ UNCHANGED <<result, partial_results, htm_i, reads, exc, ret, escaped>>
    /\ UNCHANGED <<zip_content, normVars, diagVars, sseVars, svcVars, extractVars>>

\* what Try 1 does with the member read and r, the outcome of its extraction
TryXbrlOn(member, r) ==
    IF member.read # "ok"
    THEN Throw(member.read) /\ UNCHANGED result
    ELSE IF r.raised
    THEN Throw("OverflowError") /\ UNCHANGED result
    ELSE /\ result' = r.v
         /\ IF YieldsRatio(r.v)
            THEN ret' = r.v /\ pc' = "done"
            ELSE ret' = ret /\ pc' = "try_inline"
         /\ UNCHANGED <<exc, escaped>>

\* Try 1: the first traditional-XBRL candidate
TryXbrl ==
    /\ pc = "try_xbrl"
    /\ IF xbrl_files = <<>>
       THEN /\ pc' = "try_inline"
            /\ UNCHANGED <<result, reads, exc, ret, escaped>>
       ELSE /\ reads' = Append(reads, xbrl_files[1])
            /\ TryXbrlOn(Member(xbrl_files[1]),
                         ExtractFromXbrl(Member(xbrl_files[1]).doc))
    /\ UNCHANGED <<zip_content, selVars, partial_results, htm_i, normVars, diagVars, sseVars, svcVars, extractVars>>

\* what one round of the Try 2 loop does with the member read and r, the
\* outcome of its extraction
TryInlineOn(member, r) ==
    IF member.read # "ok"
    THEN Throw(member.read) /\ UNCHANGED <<partial_results, htm_i>>
    ELSE IF r.raised
    THEN Throw("OverflowError") /\ UNCHANGED <<partial_results, htm_i>>
    ELSE IF YieldsRatio(r.v)
    THEN /\ ret' = r.v
         /\ pc' = "done"
         /\ UNCHANGED <<partial_results, htm_i, exc, escaped>>
    ELSE /\ partial_results' = Append(partial_results, r.v)
         /\ htm_i' = htm_i + 1
         /\ UNCHANGED <<pc, exc, ret, escaped>>

\* Try 2: one round of the loop over htm_files; without inline candidates the
\* function falls through to its last line
TryInline ==
    /\ pc = "try_inline"
    /\ IF htm_files = <<>>
       THEN /\ ret' = result
            /\ pc' = "done"
            /\ UNCHANGED <<partial_results, htm_i, reads, exc, escaped>>
       ELSE IF htm_i > Len(htm_files)
       THEN /\ pc' = "merge"
            /\ UNCHANGED <<partial_results, htm_i, reads, exc, ret, escaped>>
       ELSE /\ reads' = Append(reads, htm_files[htm_i])
            /\ TryInlineOn(Member(htm_files[htm_i]),
                           ExtractFromInlineXbrl(Member(htm_files[htm_i]).doc))
    /\ UNCHANGED <<zip_content, selVars, result, normVars, diagVars, sseVars, svcVars, extractVars>>

\* the merge of the partial results over a copy of result, and the return
Merge ==
    /\ pc = "merge"
    /\ LET merged == MergedOver(result, partial_results)
       IN ret' = IF \E i \in 1..Len(Keys) : ~IsNone(merged[Keys[i]])
                 THEN merged ELSE result
    /\ pc' = "done"
    /\ UNCHANGED <<zip_content, selVars, result, partial_results, htm_i, reads, exc,
                   escaped, normVars, diagVars, sseVars, svcVars, extractVars>>

Next == Open \/ TryXbrl \/ TryInline \/ Merge

(***************************************************************************)
(* The archives tried                                                      *)
(***************************************************************************)
Path(stem, ext, areas) == [ext |-> ext, areas |-> areas, stem |-> stem]

pPublicXbrl == Path("a", "xbrl", {"PublicDoc"})
pAuditXbrl == Path("a", "xbrl", {"AuditDoc"})
pFlatXbrl == Path("b", "xbrl", {})
pPublicHtm1 == Path("h1", "htm", {"PublicDoc"})
pPublicHtm2 == Path("h2", "xhtml", {"PublicDoc"})
pMacHtm == Path("._h1", "htm", {"__MACOSX", "PublicDoc"})
pFlatHtm == Path("h", "htm", {})
pPdf == Path("r", "pdf", {})

WellFormed(es) == [wellformed |-> TRUE, elems |-> es]
Malformed(es) == [wellformed |-> FALSE, elems |-> es]

xRatio ==
    WellFormed(<<Elem("fact", nHoldingRatio, cFiling, Num(523, -4)),
                 Elem("fact", nReporter, cFiling, Junk(1))>>)
xPartial ==
    WellFormed(<<Elem("fact", nReporter, cFiling, Junk(1)),
                 Elem("fact", nHoldingRatio, cPrior, Num(41, -3))>>)
xOverflow == WellFormed(<<Elem("fact", nStocksHeld, cFiling, InfText)>>)
hPercent == <<Elem("nonFraction", nHoldingRatio, cFiling, Pct(5, -1))>>
hBare ==
    WellFormed(<<[Elem("nonFraction", nTotalShareholdingRatio, cFiling, Num(5, -3))
                     EXCEPT !.order = "cn"]>>)
hHolderA ==
    WellFormed(<<Elem("nonNumeric", nReporter, cFiling, Junk(2)),
                 [Elem("nonFraction", nStocksHeld, cFiling, Num(2500, 0))
                     EXCEPT !.scale = ScaleInt(3)]>>)
hHolderB ==
    WellFormed(<<Elem("nonNumeric", nReporter, cFiling, Junk(3)),
                 Elem("nonNumeric", nIssuer, cFiling, Junk(4))>>)
hPrevOnly == WellFormed(<<Elem("nonFraction", nPerLastReport, cFiling, Pct(62, -1))>>)
hOverflow == WellFormed(<<Elem("nonFraction", nStocksHeld, cFiling, InfText)>>)

Stored(path, d) == [path |-> path, read |-> "ok", doc |-> d]
Unreadable(path, e) == [path |-> path, read |-> e, doc |-> WellFormed(<<>>)]

ArchiveMembers ==
    {Stored(pPublicXbrl, xRatio), Stored(pPublicXbrl, xPartial),
     Stored(pPublicXbrl, xOverflow), Unreadable(pPublicXbrl, "BadZipFile"),
     Stored(pPublicXbrl, Malformed(xRatio.elems)),
     Stored(pAuditXbrl, xRatio),
     Stored(pFlatXbrl, xRatio), Stored(pFlatXbrl, xPartial),
     Stored(pPublicHtm1, WellFormed(hPercent)), Stored(pPublicHtm1, Malformed(hPercent)),
     Stored(pPublicHtm1, hHolderA), Stored(pPublicHtm1, hOverflow),
     Unreadable(pPublicHtm1, "RuntimeError"), Stored(pPublicHtm1, Malformed(<<>>)),
     Stored(pPublicHtm2, hBare), Stored(pPublicHtm2, hHolderB),
     Stored(pPublicHtm2, hPrevOnly),
     Stored(pMacHtm, hHolderB),
     Stored(pFlatHtm, hBare),
     Stored(pPdf, WellFormed(<<>>))}

\* most members of an archive built from ArchiveMembers
MaxMembers == 3

RECURSIVE Archives(_)
\* the member lists of k members with k different paths
Archives(k) ==
    IF k = 0 THEN {<<>>}
    ELSE {Append(ms, m) : <<ms, m>> \in
             {am \in Archives(k - 1) \X ArchiveMembers :
                 \A i \in 1..Len(am[1]) : am[1][i].path # am[2].path}}

\* an archive whose one candidate holds one probe element
ProbeArchive(x, wf) ==
    [kind |-> "zip",
     members |-> <<Stored(IF x.tag = "fact" THEN pPublicXbrl ELSE pPublicHtm1,
                          [wellformed |-> wf, elems |-> <<x>>])>>]

Init ==
    /\ \/ zip_content \in {[kind |-> "empty", members |-> <<>>],
                           [kind |-> "garbage", members |-> <<>>]}
       \/ \E k \in 0..MaxMembers : \E ms \in Archives(k) :
             zip_content = [kind |-> "zip", members |-> ms]
       \/ \E x \in ProbeElems, wf \in BOOLEAN : zip_content = ProbeArchive(x, wf)
    /\ result = EmptyHoldingResult
    /\ partial_results = <<>>
    /\ htm_i = 1
    /\ reads = <<>>
    /\ exc = ""
    /\ ret = NoCall
    /\ escaped = FALSE
    /\ pc = "open"
    /\ IdleSel /\ IdleNorm /\ IdleExtract /\ IdleDiag /\ IdleSSE /\ IdleSvc

Spec == Init /\ [][Next]_vars

(***************************************************************************)
(* SpecDiscover: _discover_xbrl_files called on one member list            *)
(***************************************************************************)
\* longest member list tried
MaxFiles == 3

AreaMarkers == {"PublicDoc", "AuditDoc", "__MACOSX"}

\* every candidate extension under every combination of markers, and one
\* member that is of neither format
DiscoverPaths ==
    [ext : {"xbrl", "htm", "xhtml"}, areas : SUBSET AreaMarkers]
        \cup {[ext |-> "pdf", areas |-> {"PublicDoc"}]}

InitDiscover ==
    /\ \E k \in 0..MaxFiles : all_files \in [1..k -> DiscoverPaths]
    /\ xbrl_files = <<>>
    /\ htm_files = <<>>
    /\ pc = "discover"
    /\ IdleNorm /\ IdleParse /\ IdleExtract /\ IdleDiag /\ IdleSSE /\ IdleSvc

DiscoverCall ==
    /\ pc = "discover"
    /\ xbrl_files' = DiscoverXbrlFiles(all_files)[1]
    /\ htm_files' = DiscoverXbrlFiles(all_files)[2]
    /\ pc' = "discovered"
    /\ UNCHANGED <<all_files, normVars, diagVars, sseVars, svcVars, parseVars, extractVars>>

NextDiscover == DiscoverCall

SpecDiscover == InitDiscover /\ [][NextDiscover]_vars

\* the members of all_files at the positions in P, in archive order
MembersAt(P) ==
    LET RECURSIVE Take(_)
        Take(i) == IF i > Len(all_files) THEN <<>>
                   ELSE (IF i \in P THEN <<all_files[i]>> ELSE <<>>) \o Take(i + 1)
    IN Take(1)

Positions == 1..Len(all_files)
IsXbrlFormat(i) == all_files[i].ext = "xbrl"
IsInlineFormat(i) == all_files[i].ext \in {"htm", "xhtml"}
InPublicArea(i) == "PublicDoc" \in all_files[i].areas
InExcludedArea(i) == all_files[i].areas \cap {"AuditDoc", "__MACOSX"} # {}

\* what the selector is to return for the members of one format
SelectionOf(OfFormat(_)) ==
    LET pub == {i \in Positions : OfFormat(i) /\ InPublicArea(i)}
        rest == {i \in Positions : OfFormat(i) /\ ~InExcludedArea(i)}
    IN IF pub # {} THEN MembersAt(pub) ELSE MembersAt(rest)

\* C5: neither candidate list ever holds a path under the audit-document or the
\* platform-metadata marker, whatever other markers the path contains.
C5_NeverExcludedArea ==
    pc = "discovered" =>
        /\ \A i \in 1..Len(xbrl_files) :
              xbrl_files[i].areas \cap {"AuditDoc", "__MACOSX"} = {}
        /\ \A i \in 1..Len(htm_files) :
              htm_files[i].areas \cap {"AuditDoc", "__MACOSX"} = {}

\* C6: per format, the selector returns exactly the members of that format in
\* the public-document area, in archive order, when there is one; only when
\* there is none, all members of that format outside the excluded areas.
C6_PublicElseFallback ==
    pc = "discovered" =>
        /\ xbrl_files = SelectionOf(IsXbrlFormat)
        /\ htm_files = SelectionOf(IsInlineFormat)

\* the fallback happened for one format while the other had public members,
\* and an excluded member of the falling-back format was left out
C6_Witness ==
    /\ pc = "discovered"
    /\ \E i \in Positions : IsXbrlFormat(i) /\ InExcludedArea(i) /\ ~InPublicArea(i)
    /\ \A i \in Positions : IsXbrlFormat(i) => ~InPublicArea(i)
    /\ Len(xbrl_files) = 1
    /\ Len(htm_files) = 1
    /\ \E i \in Positions : IsInlineFormat(i) /\ InPublicArea(i)

(***************************************************************************)
(* SpecNorm: _normalize_ratio called on one value                          *)
(***************************************************************************)
\* largest mantissa and largest number of decimals of the values tried
MaxMant == 15
MaxDec == 7

NormInputs ==
    {Canon(m, -d) : m \in -MaxMant..MaxMant, d \in -1..MaxDec}
        \cup {Canon(523, -4), Canon(410, -4), Inf}

InitNorm ==
    /\ val \in NormInputs
    /\ norm_out = NoCall
    /\ pc = "normalize"
    /\ IdleSel /\ IdleParse /\ IdleExtract /\ IdleDiag /\ IdleSSE /\ IdleSvc

NormalizeCall ==
    /\ pc = "normalize"
    /\ norm_out' = NormalizeRatio(val)
    /\ pc' = "normalized"
    /\ UNCHANGED <<val, selVars, parseVars, extractVars, diagVars, sseVars, svcVars>>

NextNorm == NormalizeCall

SpecNorm == InitNorm /\ [][NextNorm]_vars

\* r is x rounded to four decimals: at most four decimals, and within half a
\* unit of the fourth decimal of x
IsRounded4(r, x) ==
    /\ r.k = "num" /\ x.k = "num"
    /\ r.e >= -4
    /\ LET lo == IF r.e < x.e THEN r.e ELSE x.e
           R == r.m * Pow10(r.e - lo)
           X == x.m * Pow10(x.e - lo)
       IN IF lo >= -4 THEN R = X ELSE 2 * Abs(R - X) <= Pow10(-4 - lo)

\* C8: without a percent marker, _normalize_ratio returns v*100 rounded to four
\* decimals when 0 < v <= 1.0 (1.0 gives 100, 0.0523 gives 5.23) and returns v
\* unchanged for every other v (0, negative, above 1.0).
C8_NormalizeContract ==
    norm_out # NoCall =>
        /\ (val.k = "num" /\ val.m > 0 /\ AtMostOne(val))
              => IsRounded4(norm_out, Canon(val.m * 100, val.e))
        /\ ~(val.k = "num" /\ val.m > 0 /\ AtMostOne(val)) => norm_out = val
        /\ val = Canon(1, 0) => norm_out = Canon(100, 0)
        /\ val = Canon(523, -4) => norm_out = Canon(523, -2)

\* a value of exactly 1.0 has been rescaled to 100
C8_Witness == val = Canon(1, 0) /\ norm_out = Canon(100, 0)

(***************************************************************************)
(* Properties of the extractors (SpecExtract)                              *)
(***************************************************************************)
\* the value the source text of element x stands for: its literal times ten
\* to the power of its scale attribute, negated under sign "-"
DecodedValue(x) ==
    Canon((IF x.sign = "-" THEN -1 ELSE 1) * x.text.m, x.text.e + x.scale.n)

\* v taken as a fraction and turned into a percentage, once
AsPercentage(v) ==
    IF v.k = "num" /\ v.m > 0 /\ AtMostOne(v) THEN Round4(Canon(v.m * 100, v.e)) ELSE v

\* the values a ratio element may leave in a record: its literal as it stands
\* when the text carries a percent sign, else the literal turned into a
\* percentage once when it lies in (0, 1.0]; the literal is read with its scale
\* and sign (XML walk) or without them (regex pass, instance walk)
RatioValues(x) ==
    LET t == x.text
        plain == IF t.kind = "num" THEN Canon(t.m, t.e) ELSE Inf
        decoded == IF t.kind = "num" /\ x.tag # "fact" THEN {plain, DecodedValue(x)}
                   ELSE {plain}
    IN IF t.kind \notin {"num", "inf"} THEN {}
       ELSE {IF t.pct THEN d ELSE AsPercentage(d) : d \in decoded}

\* the previous-report test in the words of the specification
ClaimedPrevious(x) ==
    \/ In(<<"Per", "Last", "Report">>, x.name)
    \/ In(<<"Previous">>, x.name)
    \/ In(<<"Prior">>, x.ctx)
    \/ In(<<"Previous">>, x.ctx)

\* C4: in the instance walk, the inline XML walk and the inline regex pass, a
\* ratio is stored as previous_holding_ratio only from an element whose local
\* name contains PerLastReport or Previous or whose contextRef contains Prior or
\* Previous, and as holding_ratio only from an element for which none of these
\* holds; the same test decides in all three.
C4_SameClassification ==
    (strategy \in {"xbrl", "xml", "regex", "inline"} /\ ~out.raised) =>
        /\ ~IsNone(out.v.previous_holding_ratio) =>
              \E i \in 1..Len(doc.elems) :
                  /\ ClaimedPrevious(doc.elems[i])
                  /\ out.v.previous_holding_ratio \in RatioValues(doc.elems[i])
        /\ ~IsNone(out.v.holding_ratio) =>
              \E i \in 1..Len(doc.elems) :
                  /\ ~ClaimedPrevious(doc.elems[i])
                  /\ out.v.holding_ratio \in RatioValues(doc.elems[i])

\* the regex pass has stored a ratio as the previous one on the strength of the
\* contextRef alone
C4_Witness ==
    /\ strategy = "regex"
    /\ Len(doc.elems) = 1
    /\ doc.elems[1].name = nHoldingRatio
    /\ doc.elems[1].ctx = cPrior
    /\ ~out.raised
    /\ ~IsNone(out.v.previous_holding_ratio)
    /\ IsNone(out.v.holding_ratio)

\* C10: _parse_ix_number returns the literal times ten to the power of the
\* scale attribute, negated under sign "-" ('2500' with scale 3 gives
\* 2,500,000; no scale and no sign give the literal), and the XML walk
\* truncates a share count and rescales a ratio only after that.
C10_ScaleThenSign ==
    (/\ strategy \in {"parse_ix", "xml"}
     /\ Len(doc.elems) = 1
     /\ doc.elems[1].tag = "nonFraction"
     /\ doc.elems[1].text.kind = "num"
     /\ doc.elems[1].scale.k # "huge") =>
        LET x == doc.elems[1]
        IN /\ strategy = "parse_ix" =>
                /\ out = Ok(DecodedValue(x))
                /\ (x.text.m = 2500 /\ x.text.e = 0 /\ x.scale = ScaleInt(3) /\ x.sign = "")
                      => out.v = Canon(2500000, 0)
                /\ (x.scale = NoScale /\ x.sign = "") => out.v = Canon(x.text.m, x.text.e)
           /\ (strategy = "xml" /\ x.ix /\ x.name = nStocksHeld /\ x.ctx = cFiling) =>
                out.v.shares_held = [k |-> "int", m |-> IntOf(DecodedValue(x)), e |-> 0]
           /\ (/\ strategy = "xml" /\ x.ix /\ x.name = nHoldingRatio /\ x.ctx = cFiling
               /\ ~x.text.pct) =>
                out.v.holding_ratio = AsPercentage(DecodedValue(x))

\* '2500' with scale 3 and sign "-" has been decoded to -2,500,000
C10_Witness ==
    /\ strategy = "parse_ix"
    /\ doc.elems[1].text = Num(2500, 0)
    /\ doc.elems[1].scale = ScaleInt(3)
    /\ doc.elems[1].sign = "-"
    /\ out = Ok(Canon(-2500000, 0))

\* x is a joint-holder name element with text, as the instance walk
\* ("xbrl") or the inline XML walk ("xml") reads the document
IsJointHolderName(x, s) ==
    /\ IF s = "xbrl" THEN x.tag = "fact" ELSE x.tag = "nonNumeric" /\ x.ix
    /\ In(<<"Joint", "Holder">>, x.name) /\ In(<<"Name">>, x.name)
    /\ ~In(<<"Abstract">>, x.name)
    /\ ~(x.text.kind = "empty" /\ ~x.text.pct /\ ~x.text.sep)

\* x is a joint-holder ratio element whose text decodes
IsJointHolderRatio(x, s) ==
    /\ IF s = "xbrl" THEN x.tag = "fact" /\ ~x.text.pct /\ ~x.text.sep
       ELSE x.tag = "nonFraction" /\ x.ix
    /\ In(<<"Joint", "Holder">>, x.name) /\ In(<<"Ratio">>, x.name)
    /\ ~In(<<"Abstract">>, x.name)
    /\ x.text.kind \in {"num", "inf"}

\* the ratio such an element stands for, as a percentage
JointHolderRatioOf(x, s) ==
    LET d == IF x.text.kind = "inf" THEN Inf
             ELSE IF s = "xbrl" THEN Canon(x.text.m, x.text.e) ELSE DecodedValue(x)
    IN IF x.text.pct THEN d ELSE AsPercentage(d)

C12_RegexStoresWhatXmlStores ==
    (/\ strategy = "regex"
     /\ doc.wellformed
     /\ Len(doc.elems) = 1
     /\ doc.elems[1].tag = "nonFraction"
     /\ doc.elems[1].ix
     /\ doc.elems[1].ctx # <<>>
     /\ ~out.raised
     /\ ~ExtractInlineViaXml(doc.elems).raised) =>
        \A key \in {"holding_ratio", "previous_holding_ratio", "shares_held"} :
            out.v[key] = ExtractInlineViaXml(doc.elems).v[key]

\* rec has a current or a previous ratio
FillsARatio(rec) == ~IsNone(rec.holding_ratio) \/ ~IsNone(rec.previous_holding_ratio)

\* C13: an element's local name makes the instance walk fill a ratio from it
\* if and only if the same local name, on an inline element with the same
\* contextRef and text, makes the inline XML walk fill a ratio from it.
C13_SameRatioNames ==
    (/\ strategy = "xbrl"
     /\ doc.wellformed
     /\ Len(doc.elems) = 1
     /\ doc.elems[1].tag = "fact"
     /\ doc.elems[1].text = Num(523, -4)
     /\ ~out.raised) =>
        LET twin == [doc.elems[1] EXCEPT !.tag = "nonFraction"]
        IN FillsARatio(out.v) <=> FillsARatio(ExtractInlineViaXml(<<twin>>).v)

\* what strategy s returns for document d
ExtractBy(s, d) ==
    CASE s = "xbrl" -> ExtractFromXbrl(d)
      [] s = "xml" -> ExtractInlineViaXml(d.elems)
      [] s = "regex" -> ExtractInlineViaRegex(d.elems)
      [] OTHER -> ExtractFromInlineXbrl(d)

\* x is a numeric element whose value strategy s cannot decode: text that is
\* no number, no text, a bare dash, a share count beyond every integer, or
\* (where the scale attribute is read) a scale beyond the float range
IsUndecodable(x, s) ==
    /\ x.tag \in {"fact", "nonFraction"}
    /\ In(<<"Ratio">>, x.name) \/ In(<<"Number", "Of">>, x.name)
    /\ \/ x.text.kind \in {"junk", "empty", "dash"}
       \/ x.text.kind = "inf" /\ In(<<"Number", "Of">>, x.name)
       \/ x.scale.k = "huge" /\ x.text.kind = "num" /\ s # "regex"

\* C14: an element whose value cannot be decoded is skipped and nothing else
\* changes: the instance walk and the inline XML walk return for the document
\* what they return for the document without its undecodable elements.
C14_UndecodableElementSkipped ==
    (strategy \in {"xbrl", "xml"} /\ doc.wellformed) =>
        out = ExtractBy(strategy,
                        [doc EXCEPT !.elems = SelectSeq(doc.elems,
                                                  LAMBDA x : ~IsUndecodable(x, strategy))])

\* the text fields and the ordered pattern list of each
TextFields ==
    [holder_name |-> HOLDER_PATTERNS, target_company_name |-> TARGET_PATTERNS,
     target_sec_code |-> SEC_CODE_PATTERNS, purpose_of_holding |-> PURPOSE_PATTERNS,
     fund_source |-> FUND_SOURCE_PATTERNS]

\* the positions of the facts with text whose name contains the pattern
TextHits(facts, pattern) ==
    {j \in 1..Len(facts) : In(pattern, facts[j].name) /\ ~RawEmpty(facts[j].text)}

\* first-match-wins over an ordered pattern list: the first fact in document
\* order under the highest-ranking pattern that has a fact with text
FirstMatchWins(facts, patterns) ==
    LET live == {i \in 1..Len(patterns) : TextHits(facts, patterns[i]) # {}}
        best == CHOOSE i \in live : \A i2 \in live : i <= i2
        hits == TextHits(facts, patterns[best])
    IN IF live = {} THEN None
       ELSE Str(facts[CHOOSE j \in hits : \A j2 \in hits : j <= j2].text)

\* the facts of an instance as the elements of an inline document
AsInline(facts) ==
    [i \in 1..Len(facts) |->
        [facts[i] EXCEPT !.tag = IF In(<<"Ratio">>, facts[i].name)
                                     \/ In(<<"Number", "Of">>, facts[i].name)
                                  THEN "nonFraction" ELSE "nonNumeric"]]

\* C24: each text field (holder name, target name, target code, purpose, fund
\* source) holds the first fact in document order under the highest-ranking
\* pattern of its list that has a fact with text, and the inline XML walk and
\* the inline regex pass hold the same value for the same facts in the same
\* order.
C24_TextFirstMatchWins ==
    (/\ strategy = "xbrl"
     /\ doc.wellformed
     /\ \A i \in 1..Len(doc.elems) : doc.elems[i] \in TextFacts("fact")) =>
        /\ ~out.raised
        /\ \A key \in DOMAIN TextFields :
              /\ out.v[key] = FirstMatchWins(doc.elems, TextFields[key])
              /\ ExtractInlineViaXml(AsInline(doc.elems)).v[key] = out.v[key]
              /\ ExtractInlineViaRegex(AsInline(doc.elems)).v[key] = out.v[key]

\* the smallest member of a non-empty set of natural numbers
Least(S) == CHOOSE j \in S : \A j2 \in S : j <= j2

\* the positions of the share counts that are not historical
\* and whose text is a number
CurrentShareCounts(elems) ==
    {j \in 1..Len(elems) :
        /\ In(<<"Number", "Of", "Stocks", "Etc">>, elems[j].name)
        /\ ~In(<<"Prior">>, elems[j].ctx) /\ ~In(<<"Previous">>, elems[j].ctx)
        /\ elems[j].text.kind = "num"}

\* C25: in the instance walk, the inline XML walk and the inline regex pass,
\* shares_held never comes from an element whose contextRef contains Prior or
\* Previous: such an element is skipped even when it is the first match, and
\* the field holds the first share count that decodes and is not historical,
\* or None when there is none.
C25_HistoricalSharesSkipped ==
    (/\ strategy \in {"xbrl", "xml", "regex"}
     /\ doc.wellformed
     /\ \A i \in 1..Len(doc.elems) :
           doc.elems[i] \in ShareFacts(IF strategy = "xbrl" THEN "fact" ELSE "ix")) =>
        LET cur == CurrentShareCounts(doc.elems)
            first == Least(cur)
        IN /\ ~out.raised
           /\ out.v.shares_held =
                 IF cur = {} THEN None
                 ELSE [k |-> "int", m |-> IntOf(Canon(doc.elems[first].text.m,
                                                      doc.elems[first].text.e)),
                       e |-> 0]

\* the positions of the ratios of kind "current" or "previous" that decode
\* and that the pattern finds, header and per-holder elements left out
RatioHits(elems, pattern, kind) ==
    {j \in 1..Len(elems) :
        /\ In(pattern, elems[j].name)
        /\ ~In(<<"Abstract">>, elems[j].name)
        /\ ~In(<<"Each", "Large", "Shareholder">>, elems[j].name)
        /\ ~IsNone(PyFloat(elems[j].text))
        /\ (kind = "previous") = ClaimedPrevious(elems[j])}

\* the first decodable match of the kind: the first in document order under
\* the first pattern of the list that has one, None when no pattern has one
FirstRatio(elems, patterns, kind) ==
    LET live == {i \in 1..Len(patterns) : RatioHits(elems, patterns[i], kind) # {}}
    IN IF live = {} THEN None
       ELSE NormalizeRatio(
                PyFloat(elems[Least(RatioHits(elems, patterns[Least(live)], kind))].text))

\* C26: the instance walk goes through the specific ratio patterns in list
\* order and fills holding_ratio and previous_holding_ratio once each, from
\* the first decodable match; the broader HoldingRatio scan runs only when the
\* specific patterns found neither a current nor a previous ratio.
C26_RatioScanOrder ==
    (/\ strategy = "xbrl"
     /\ doc.wellformed
     /\ \A i \in 1..Len(doc.elems) : doc.elems[i] \in RatioFacts("fact")) =>
        LET cur == FirstRatio(doc.elems, ratio_patterns, "current")
            prev == FirstRatio(doc.elems, ratio_patterns, "previous")
            broad == << <<"Holding", "Ratio">> >>
        IN /\ ~out.raised
           /\ IF IsNone(cur) /\ IsNone(prev)
              THEN /\ out.v.holding_ratio = FirstRatio(doc.elems, broad, "current")
                   /\ out.v.previous_holding_ratio = FirstRatio(doc.elems, broad, "previous")
              ELSE /\ out.v.holding_ratio = cur
                   /\ out.v.previous_holding_ratio = prev

\* the joint-holder elements of one group ("Name" or "Ratio") in document
\* order, as strategy s reads the document, with or without a usable text
JointHolderGroup(elems, group, s) ==
    SelectSeq(elems,
              LAMBDA x :
                  /\ IF s = "xbrl" THEN x.tag = "fact"
                     ELSE x.ix /\ x.tag = (IF group = "Name" THEN "nonNumeric"
                                           ELSE "nonFraction")
                  /\ In(<<"Joint", "Holder">>, x.name) /\ In(<<group>>, x.name)
                  /\ ~In(<<"Abstract">>, x.name))

\* C27: joint-holder names and ratios are paired by element position: a ratio
\* attached to a holder is the value of the ratio element that has the same
\* position in the ratio group as the holder's name element has in the name
\* group, so a name element without text or a ratio element that does not
\* decode moves no other ratio onto a different holder.
C27_PairedByElementPosition ==
    (/\ strategy \in {"xbrl", "xml"}
     /\ doc.wellformed
     /\ ~out.raised
     /\ ~IsNone(out.v.joint_holders)) =>
        LET names == JointHolderGroup(doc.elems, "Name", strategy)
            ratios == JointHolderGroup(doc.elems, "Ratio", strategy)
            named == SelectSeq([p \in 1..Len(names) |-> p],
                               LAMBDA p : IsJointHolderName(names[p], strategy))
            jh == out.v.joint_holders.m
        IN /\ Len(jh) = Len(named)
           /\ \A i \in 1..Len(jh) :
                 /\ jh[i].name = Str(names[named[i]].text)
                 /\ ~IsNone(jh[i].ratio) =>
                       /\ named[i] <= Len(ratios)
                       /\ IsJointHolderRatio(ratios[named[i]], strategy)
                       /\ jh[i].ratio = JointHolderRatioOf(ratios[named[i]], strategy)

\* the field a numeric fact competes for
FieldOf(x) ==
    IF In(<<"Number", "Of">>, x.name) THEN "shares_held"
    ELSE IF ClaimedPrevious(x) THEN "previous_holding_ratio"
    ELSE "holding_ratio"

\* C28: when several inline numeric facts compete for holding_ratio,
\* previous_holding_ratio or shares_held, the regex pass fills the field from
\* the fact earliest in document order, whether that fact's name attribute
\* stands before or after its contextRef attribute, and this is the fact the
\* XML walk takes.
C28_AttributeOrderKeepsWinner ==
    (/\ strategy = "regex"
     /\ doc.wellformed
     /\ \A i \in 1..Len(doc.elems) : doc.elems[i] \in OrderFacts) =>
        /\ ~out.raised
        /\ \A key \in {"holding_ratio", "previous_holding_ratio", "shares_held"} :
              LET rivals == {j \in 1..Len(doc.elems) : FieldOf(doc.elems[j]) = key}
              IN /\ out.v[key] = ExtractInlineViaXml(doc.elems).v[key]
                 /\ out.v[key] =
                       IF rivals = {} THEN None
                       ELSE ExtractInlineViaXml(<<doc.elems[Least(rivals)]>>).v[key]

(***************************************************************************)
(* Properties of parse_xbrl_for_holding_data (Spec)                        *)
(***************************************************************************)
KeySet == {Keys[i] : i \in 1..Len(Keys)}

\* the sources in the order they are tried
Sources == (IF xbrl_files # <<>> THEN <<xbrl_files[1]>> ELSE <<>>) \o htm_files

\* what extracting the member stored under path gives
ExtractionOf(path) ==
    LET member == Member(path)
    IN IF member.read # "ok" THEN Raised
       ELSE IF path.ext = "xbrl" THEN ExtractFromXbrl(member.doc)
       ELSE ExtractFromInlineXbrl(member.doc)

YieldsCurrentRatio(path) ==
    ~ExtractionOf(path).raised /\ ~IsNone(ExtractionOf(path).v.holding_ratio)

NoSourceYields == \A k \in 1..Len(Sources) : ~YieldsCurrentRatio(Sources[k])
NoFailure == \A k \in 1..Len(Sources) : ~ExtractionOf(Sources[k]).raised

\* per field, the value of the first record of recs that has one
FirstNonEmpty(recs) ==
    [key \in KeySet |->
        LET having == {i \in 1..Len(recs) : ~IsNone(recs[i][key])}
        IN IF having = {} THEN None
           ELSE recs[CHOOSE i \in having : \A j \in having : i <= j][key]]

InlinePartials == [i \in 1..Len(htm_files) |-> ExtractionOf(htm_files[i]).v]

\* the record of the first traditional-XBRL candidate, the empty record when
\* there is no such candidate or its extraction failed
TraditionalPartial ==
    IF xbrl_files # <<>> /\ ~ExtractionOf(xbrl_files[1]).raised
    THEN ExtractionOf(xbrl_files[1]).v ELSE EmptyHoldingResult

\* the steps the call can still take, at most
StepsLeft ==
    CASE pc = "open" -> 4 + Len(zip_content.members)
      [] pc = "try_xbrl" -> 3 + Len(htm_files)
      [] pc = "try_inline" -> 3 + Len(htm_files) - htm_i
      [] pc = "merge" -> 1
      [] OTHER -> 0

\* C1: no exception leaves parse_xbrl_for_holding_data, the record returned
\* has exactly the nine fields, every field is empty when the bytes are not an
\* archive that opens, and the call terminates: each step brings it nearer to
\* its return.
C1_ReturnsRecordNeverRaises ==
    /\ [](/\ ~escaped
          /\ StepsLeft >= 0
          /\ pc = "done" =>
                /\ DOMAIN ret = KeySet
                /\ zip_content.kind # "zip" => ret = EmptyHoldingResult)
    /\ [][StepsLeft' < StepsLeft]_vars

\* an undecodable value raised inside an extractor, and a record came back
C1_Witness ==
    /\ pc = "done"
    /\ exc = "OverflowError"
    /\ ~escaped
    /\ DOMAIN ret = KeySet

\* C2: a returned record with a current ratio is the record of the earliest
\* source, in the order first traditional-XBRL candidate then inline
\* candidates, whose extraction yields a current ratio, and no later source
\* was read.
C2_EarliestYieldingSource ==
    (pc = "done" /\ ~escaped /\ ~IsNone(ret.holding_ratio)) =>
        \E k \in 1..Len(Sources) :
            /\ YieldsCurrentRatio(Sources[k])
            /\ \A j \in 1..(k - 1) : ~YieldsCurrentRatio(Sources[j])
            /\ ret = ExtractionOf(Sources[k]).v
            /\ reads = SubSeq(Sources, 1, k)

\* the second of three sources yielded the ratio and the third was not read
C2_Witness ==
    /\ pc = "done"
    /\ ~IsNone(ret.holding_ratio)
    /\ Len(Sources) = 3
    /\ Len(reads) = 2
    /\ xbrl_files # <<>>

\* C3 as stated: when no candidate yields a current ratio (and nothing
\* fails), the record returned is the first-non-empty merge of the partial
\* records of the inline candidates alone.
C3_MergeOfInlinePartialsOnly ==
    (pc = "done" /\ htm_files # <<>> /\ NoSourceYields /\ NoFailure) =>
        ret = FirstNonEmpty(InlinePartials)

\* C3: when no candidate yields a current ratio and nothing fails, the record
\* returned is the first-non-empty merge, per field, of the partial record of
\* the first traditional-XBRL candidate followed by the partial records of the
\* inline candidates in candidate order; when a read or an extraction fails,
\* it is the traditional-XBRL partial record alone.
C3_MergeOverTraditionalPartial ==
    (pc = "done" /\ NoSourceYields) =>
        IF NoFailure
        THEN ret = FirstNonEmpty(<<TraditionalPartial>> \o InlinePartials)
        ELSE ret = TraditionalPartial

\* three partial records, naming three different holders, were merged
C3_Witness ==
    /\ pc = "done"
    /\ exc = ""
    /\ xbrl_files # <<>>
    /\ Len(partial_results) = 2
    /\ result.holder_name = Str(Junk(1))
    /\ partial_results[1].holder_name = Str(Junk(2))
    /\ partial_results[2].holder_name = Str(Junk(3))
    /\ ret.holder_name = Str(Junk(1))
    /\ ~IsNone(ret.shares_held)
    /\ ~IsNone(ret.target_company_name)

\* C29: when the first traditional-XBRL candidate yields no current ratio
\* and no inline candidate yields one either, the record returned carries
\* every non-empty field of the traditional partial record unchanged, also
\* where an inline partial record has another value for the field; only the
\* fields the traditional record left empty are filled from inline partial
\* records; and holding_ratio is empty.
C29_TraditionalFieldsKept ==
    (pc = "done" /\ ~escaped /\ xbrl_files # <<>> /\ NoSourceYields) =>
        /\ \A key \in KeySet :
              /\ ~IsNone(TraditionalPartial[key]) => ret[key] = TraditionalPartial[key]
              /\ ret[key] # TraditionalPartial[key] =>
                    \E i \in 1..Len(htm_files) :
                        /\ ~ExtractionOf(htm_files[i]).raised
                        /\ ExtractionOf(htm_files[i]).v[key] = ret[key]
        /\ IsNone(ret.holding_ratio)

\* the traditional record named the holder, an inline record named another
\* holder and the issuer: the holder of the first and the issuer of the second
\* came back
C29_Witness ==
    /\ pc = "done"
    /\ exc = ""
    /\ xbrl_files # <<>>
    /\ Len(partial_results) = 1
    /\ ~IsNone(result.holder_name)
    /\ ~IsNone(partial_results[1].holder_name)
    /\ partial_results[1].holder_name # result.holder_name
    /\ IsNone(result.target_company_name)
    /\ ret.holder_name = result.holder_name
    /\ ret.target_company_name = partial_results[1].target_company_name
    /\ ~IsNone(ret.target_company_name)
    /\ IsNone(ret.holding_ratio)

\* the archive has one member of a candidate format, a readable .xbrl in the
\* audit-document area, and no member in the public-document area
AuditOnlyArchive ==
    /\ zip_content.kind = "zip"
    /\ \E i \in 1..Len(zip_content.members) :
          /\ zip_content.members[i].path.ext = "xbrl"
          /\ "AuditDoc" \in zip_content.members[i].path.areas
          /\ zip_content.members[i].read = "ok"
          /\ \A j \in 1..Len(zip_content.members) :
                j # i => zip_content.members[j].path.ext \notin {"xbrl", "htm", "xhtml"}
    /\ \A j \in 1..Len(zip_content.members) :
          "PublicDoc" \notin zip_content.members[j].path.areas

AuditMember ==
    zip_content.members[CHOOSE i \in 1..Len(zip_content.members) :
                            zip_content.members[i].path.ext = "xbrl"]

\* C7 as stated: the audit-area .xbrl of such an archive is read and its facts
\* are in the returned record.
C7_AuditFileAttempted ==
    (pc = "done" /\ AuditOnlyArchive) =>
        /\ reads = <<AuditMember.path>>
        /\ ret = ExtractFromXbrl(AuditMember.doc).v

\* C7: for an archive whose only candidate is a .xbrl in the audit-document
\* area, with no member in the public-document area, the file is not read and
\* the empty record is returned.
C7_AuditOnlyYieldsEmpty ==
    (pc = "done" /\ AuditOnlyArchive) =>
        /\ reads = <<>>
        /\ ret = EmptyHoldingResult

\* such an archive, holding a ratio in its audit-area file, was parsed
C7_Witness ==
    /\ pc = "done"
    /\ AuditOnlyArchive
    /\ AuditMember.doc = xRatio
    /\ ret = EmptyHoldingResult

\* C9: a ratio in the returned record is the value of a ratio element of a
\* file that was read, taken as it stands when the element's text carries a
\* percent sign and turned into a percentage exactly once when it is a bare
\* value in (0, 1.0], whichever of the XML walk, the regex pass, the gap-fill
\* and the merge it came through.
C9_RescaledAtMostOnce ==
    (pc = "done" /\ ~escaped) =>
        \A key \in {"holding_ratio", "previous_holding_ratio"} :
            ~IsNone(ret[key]) =>
                \E i \in 1..Len(reads) :
                    LET d == Member(reads[i]).doc
                    IN \E j \in 1..Len(d.elems) :
                          /\ In(<<"Ratio">>, d.elems[j].name)
                          /\ ret[key] \in RatioValues(d.elems[j])

\* "0.5%" came through the regex pass and the gap-fill as 0.5, after a
\* traditional-XBRL candidate without a current ratio
C9_Witness ==
    /\ pc = "done"
    /\ Len(reads) = 2
    /\ Member(reads[2]).doc = Malformed(hPercent)
    /\ ret.holding_ratio = Canon(5, -1)

\* the place of inline candidate i among the sources
SourceIndex(i) == (IF xbrl_files # <<>> THEN 1 ELSE 0) + i

\* the member behind source k was read and is not well-formed XML
UnparsableSource(k) ==
    /\ k <= Len(reads)
    /\ Member(Sources[k]).read = "ok"
    /\ ~Member(Sources[k]).doc.wellformed

EmptyCompanyInfo ==
    [shares_outstanding |-> None, net_assets |-> None, company_name |-> None]

\* shares_patterns of _extract_company_info
shares_patterns ==
    << <<"Number", "Of", "Issued", "Shares", "Total", "Number", "Of", "Shares", "Etc",
         "Regular", "Shares">>,
       <<"Total", "Number", "Of", "Issued", "Shares">>,
       <<"Number", "Of", "Issued", "Shares">>,
       <<"Issued", "Shares", "Total", "Number">> >>

\* the patterns _extract_company_info passes to _find_first_int
net_assets_patterns ==
    << <<"Net", "Assets">>,
       <<"Equity", "Attributable", "To", "Owners", "Of", "Parent">>,
       <<"Total", "Equity">>,
       <<"Shareholders", "Equity">> >>

\* the patterns _extract_company_info passes to _find_first_text
company_name_patterns == << <<"Company", "Name">>, <<"Filer", "Name">> >>

RECURSIVE SharesScan(_, _, _)
\* for elem in elements, for one pattern: best is result["shares_outstanding"];
\* the value is decoded before the contextRef is looked at, and the
\* OverflowError of int(float(...)) is not among the exceptions skipped
SharesScan(elems, pattern, best) ==
    IF elems = <<>> THEN Ok(best)
    ELSE LET x == Head(elems)
             f == PyFloat(x.text)
         IN IF ~In(pattern, LocalName(x)) \/ IsNone(f)
            THEN SharesScan(Tail(elems), pattern, best)
            ELSE IF PyInt(f).raised THEN Raised
            ELSE IF NotHistorical(x.ctx) /\ (IsNone(best) \/ PyInt(f).v.m > best.m)
            THEN SharesScan(Tail(elems), pattern, PyInt(f).v)
            ELSE SharesScan(Tail(elems), pattern, best)

RECURSIVE SharesLoop(_, _)
\* for pattern in shares_patterns, with the break after the first pattern
\* that left a value
SharesLoop(elems, patterns) ==
    IF patterns = <<>> THEN Ok(None)
    ELSE LET r == SharesScan(elems, Head(patterns), None)
         IN IF r.raised \/ ~IsNone(r.v) THEN r
            ELSE SharesLoop(elems, Tail(patterns))

\* _extract_company_info
ExtractCompanyInfo(d) ==
    IF ~d.wellformed THEN Ok(EmptyCompanyInfo)
    ELSE LET shares == SharesLoop(d.elems, shares_patterns)
             net == FindFirstInt(d.elems, net_assets_patterns)
         IN IF shares.raised \/ net.raised THEN Raised
            ELSE Ok([shares_outstanding |-> shares.v,
                     net_assets |-> net.v,
                     company_name |-> FindFirstText(d.elems, company_name_patterns)])

\* xbrl_files of parse_xbrl_for_company_info
CompanyXbrlFiles(files) ==
    SelectSeq(files, LAMBDA f : EndsWith(f, "xbrl") /\ Contains(f, "PublicDoc"))

\* with zipfile.ZipFile(...) as zf, and the candidate list
CompanyOpen ==
    /\ pc = "company_open"
    /\ IF zip_content.kind # "zip"
       THEN /\ Throw("BadZipFile")
            /\ UNCHANGED selVars
       ELSE LET names == [i \in 1..Len(zip_content.members) |-> zip_content.members[i].path]
            IN /\ all_files' = names
               /\ xbrl_files' = CompanyXbrlFiles(names)
               /\ htm_files' = htm_files
               /\ IF CompanyXbrlFiles(names) = <<>>
                  THEN ret' = result /\ pc' = "done"
                  ELSE ret' = ret /\ pc' = "company_extract"
               /\ UNCHANGED <<exc, escaped>>
    /\ UNCHANGED <<zip_content, result, partial_results, htm_i, reads, normVars, diagVars, sseVars, svcVars, extractVars>>

\* what the function does with the member read and r, the outcome of
\* _extract_company_info on it
CompanyExtractOn(member, r) ==
    IF member.read # "ok" THEN Throw(member.read) /\ UNCHANGED result
    ELSE IF r.raised THEN Throw("OverflowError") /\ UNCHANGED result
    ELSE /\ result' = r.v
         /\ ret' = r.v
         /\ pc' = "done"
         /\ UNCHANGED <<exc, escaped>>

\* zf.read(xbrl_files[0]), _extract_company_info and the return
CompanyExtract ==
    /\ pc = "company_extract"
    /\ reads' = Append(reads, xbrl_files[1])
    /\ CompanyExtractOn(Member(xbrl_files[1]), ExtractCompanyInfo(Member(xbrl_files[1]).doc))
    /\ UNCHANGED <<zip_content, selVars, partial_results, htm_i, normVars, diagVars, sseVars, svcVars, extractVars>>

\* _extract_company_info(xbrl_bytes), called on its own
ExtractCompanyInfoCall == Returned("company") /\ out' = ExtractCompanyInfo(doc)

nIssuedRegular == shares_patterns[1]
nTotalIssued ==
    <<"Total", "Number", "Of", "Issued", "Shares", "Summary", "Of", "Business", "Results">>
nIssuedAsOfFilingDate ==
    <<"Number", "Of", "Issued", "Shares", "As", "Of", "Filing", "Date", "Issued", "Shares",
      "Total", "Number", "Of", "Shares", "Etc">>
nIssuedTotalNumber == <<"Issued", "Shares", "Total", "Number">>
nNetAssets == <<"Net", "Assets">>
nCompanyName == <<"Company", "Name">>

ShareNames == {nIssuedRegular, nTotalIssued, nIssuedAsOfFilingDate, nIssuedTotalNumber}

\* the elements the fundamentals documents are made of: every shares name in
\* a current and in a historical context with two values, values that do not
\* decode, and the other two fields
CompanyElems ==
    {Elem("fact", n, c, t) :
        n \in ShareNames, c \in {cFiling, cPrior}, t \in {Num(1000, 0), Num(2500, 0)}}
    \cup {Elem("fact", nTotalIssued, cPrevious, Num(9000, 0)),
          Elem("fact", nTotalIssued, cFiling, Num(30005, -1)),
          Elem("fact", nTotalIssued, cFiling, Sep(9000, 0)),
          Elem("fact", nTotalIssued, cFiling, Junk(1)),
          Elem("fact", nIssuedTotalNumber, cFiling, EmptyText),
          Elem("fact", nIssuedTotalNumber, cPrior, InfText),
          Elem("fact", nNetAssets, cFiling, Num(77, 2)),
          Elem("fact", nNetAssets, cFiling, InfText),
          Elem("fact", nCompanyName, cFiling, Junk(8)),
          Elem("fact", nStocksHeld, cFiling, Num(9000, 0))}

\* most elements of a fundamentals document
MaxShares == 2

pPublicXbrl2 == Path("c", "xbrl", {"PublicDoc"})
pMacXbrl == Path("._a", "xbrl", {"__MACOSX", "PublicDoc"})

xShares == WellFormed(<<Elem("fact", nTotalIssued, cFiling, Num(2500, 0)),
                         Elem("fact", nCompanyName, cFiling, Junk(8))>>)
xSharesOther == WellFormed(<<Elem("fact", nIssuedTotalNumber, cFiling, Num(1000, 0))>>)
xNetOverflow == WellFormed(<<Elem("fact", nNetAssets, cFiling, InfText)>>)

CompanyMembers ==
    {Stored(p, d) : p \in {pPublicXbrl, pPublicXbrl2, pMacXbrl, pAuditXbrl, pFlatXbrl},
                    d \in {xShares, xSharesOther}}
    \cup {Stored(pPublicXbrl, xNetOverflow), Stored(pPublicXbrl, Malformed(xShares.elems)),
          Unreadable(pPublicXbrl, "RuntimeError"), Stored(pPublicHtm1, WellFormed(hPercent)),
          Stored(pPdf, WellFormed(<<>>))}

RECURSIVE CompanyArchives(_)
\* the member lists of k of these members with k different paths
CompanyArchives(k) ==
    IF k = 0 THEN {<<>>}
    ELSE {Append(ms, m) : <<ms, m>> \in
             {am \in CompanyArchives(k - 1) \X CompanyMembers :
                 \A i \in 1..Len(am[1]) : am[1][i].path # am[2].path}}

\* either parse_xbrl_for_company_info is called on an archive, or
\* _extract_company_info on a document
InitCompany ==
    /\ \/ /\ \/ zip_content \in {[kind |-> "empty", members |-> <<>>],
                                 [kind |-> "garbage", members |-> <<>>]}
             \/ \E k \in 0..MaxMembers : \E ms \in CompanyArchives(k) :
                   zip_content = [kind |-> "zip", members |-> ms]
          /\ pc = "company_open"
          /\ doc = [wellformed |-> FALSE, elems |-> <<>>]
       \/ /\ zip_content = [kind |-> "empty", members |-> <<>>]
          /\ pc = "extract"
          /\ \E k \in 0..MaxShares, wf \in BOOLEAN :
                \E es \in [1..k -> CompanyElems] : doc = [wellformed |-> wf, elems |-> es]
    /\ result = EmptyCompanyInfo
    /\ partial_results = <<>>
    /\ htm_i = 1
    /\ reads = <<>>
    /\ exc = ""
    /\ ret = NoCall
    /\ escaped = FALSE
    /\ strategy = ""
    /\ out = Ok(NoCall)
    /\ IdleSel /\ IdleNorm /\ IdleDiag /\ IdleSSE /\ IdleSvc

NextCompany == CompanyOpen \/ CompanyExtract \/ ExtractCompanyInfoCall

SpecCompany == InitCompany /\ [][NextCompany]_vars

(***************************************************************************)
(* Properties of the company-fundamentals pipeline (SpecCompany)           *)
(***************************************************************************)
\* the elements of doc that are shares-outstanding elements, decode to an
\* integer and are in a context that is not historical
CurrentShares ==
    {i \in 1..Len(doc.elems) :
        /\ AnyIn(shares_patterns, LocalName(doc.elems[i]))
        /\ IsNum(PyFloat(doc.elems[i].text))
        /\ NotHistorical(doc.elems[i].ctx)}

ShareValue(i) == IntOf(PyFloat(doc.elems[i].text))

\* C16: _extract_company_info returns as shares_outstanding the largest
\* integer value among all shares-outstanding elements in a context that is
\* not historical, and None when there is no such element that decodes.
C16_LargestCurrentShares ==
    (pc = "extracted" /\ strategy = "company" /\ doc.wellformed) =>
        /\ ~out.raised
        /\ IF CurrentShares = {}
           THEN IsNone(out.v.shares_outstanding)
           ELSE /\ ~IsNone(out.v.shares_outstanding)
                /\ \E i \in CurrentShares : out.v.shares_outstanding.m = ShareValue(i)
                /\ \A i \in CurrentShares : out.v.shares_outstanding.m >= ShareValue(i)

\* C17: parse_xbrl_for_company_info parses the first traditional-XBRL
\* candidate _discover_xbrl_files returns for the archive's member list, the
\* fallback outside the public-document area included, and reads nothing when
\* that list is empty.
C17_SameCandidateAsSelector ==
    (pc = "done" /\ zip_content.kind = "zip") =>
        LET selected == DiscoverXbrlFiles(all_files)[1]
        IN IF selected = <<>> THEN reads = <<>> ELSE reads = <<selected[1]>>

(***************************************************************************)
(* diagnose_xbrl                                                           *)
(*                                                                         *)
(* Of the two sample lists only the way the sampling ended is kept: the    *)
(* elements listed, the elements the regex fallback lists, or the error    *)
(* entry of the handler.                                                   *)
(***************************************************************************)
\* info at the entry of diagnose_xbrl; error "" stands for the absent key
NewInfo ==
    [zip_valid |-> FALSE, files |-> <<>>, xbrl_files |-> <<>>, htm_files |-> <<>>,
     xbrl_sample_elements |-> <<>>, htm_sample_elements |-> <<>>,
     parse_result |-> None, error |-> ""]

\* the handlers of the two sampling blocks, without their except Exception
SampleCatchesSyntaxErrorOnly(e) == e = "XMLSyntaxError"

\* the handlers of the two sampling blocks: except Exception, for the htm
\* block after except etree.XMLSyntaxError
SampleCatches(e) == e \in ExceptionSubclasses \cup {"XMLSyntaxError"}

\* etree.fromstring(zf.read(name)): the exception it ends with, "" for none
SampleRaises(member) ==
    IF member.read # "ok" THEN member.read
    ELSE IF ~member.doc.wellformed THEN "XMLSyntaxError"
    ELSE ""

\* the outer handlers of diagnose_xbrl, then return info
DiagThrow(e) ==
    /\ info' = IF e = "BadZipFile" THEN [info EXCEPT !.zip_valid = FALSE]
               ELSE [info EXCEPT !.error = e]
    /\ pc' = "diag_done"

\* with zipfile.ZipFile(...) as zf, namelist and _discover_xbrl_files
DiagnoseOpen ==
    /\ pc = "diag_open"
    /\ IF zip_content.kind # "zip"
       THEN DiagThrow("BadZipFile")
       ELSE LET names == [i \in 1..Len(zip_content.members) |-> zip_content.members[i].path]
            IN /\ info' = [info EXCEPT !.zip_valid = TRUE,
                                       !.files = names,
                                       !.xbrl_files = DiscoverXbrlFiles(names)[1],
                                       !.htm_files = DiscoverXbrlFiles(names)[2]]
               /\ pc' = "diag_sample_xbrl"
    /\ UNCHANGED <<normVars, selVars, parseVars, extractVars, sseVars, svcVars>>

\* for xf in info["xbrl_files"][:1]
DiagnoseSampleXbrl ==
    /\ pc = "diag_sample_xbrl"
    /\ IF info.xbrl_files = <<>>
       THEN info' = info /\ pc' = "diag_sample_htm"
       ELSE LET e == SampleRaises(Member(info.xbrl_files[1]))
            IN IF e = ""
               THEN /\ info' = [info EXCEPT !.xbrl_sample_elements = <<"elements">>]
                    /\ pc' = "diag_sample_htm"
               ELSE IF SampleCatches(e)
               THEN /\ info' = [info EXCEPT !.xbrl_sample_elements = <<"error">>]
                    /\ pc' = "diag_sample_htm"
               ELSE DiagThrow(e)
    /\ UNCHANGED <<normVars, selVars, parseVars, extractVars, sseVars, svcVars>>

\* for hf in info["htm_files"][:1]; after it parse_xbrl_for_holding_data is
\* entered
DiagnoseSampleHtm ==
    /\ pc = "diag_sample_htm"
    /\ IF info.htm_files = <<>>
       THEN info' = info /\ pc' = "open"
       ELSE LET e == SampleRaises(Member(info.htm_files[1]))
            IN IF e = ""
               THEN /\ info' = [info EXCEPT !.htm_sample_elements = <<"elements">>]
                    /\ pc' = "open"
               ELSE IF e = "XMLSyntaxError"
               THEN /\ info' = [info EXCEPT !.htm_sample_elements = <<"elements(regex)">>]
                    /\ pc' = "open"
               ELSE IF SampleCatches(e)
               THEN /\ info' = [info EXCEPT !.htm_sample_elements = <<"error">>]
                    /\ pc' = "open"
               ELSE DiagThrow(e)
    /\ UNCHANGED <<normVars, selVars, parseVars, extractVars, sseVars, svcVars>>

\* info["parse_result"] = self.parse_xbrl_for_holding_data(zip_content), once
\* that call is over, and return info
DiagnoseReturn ==
    /\ pc = "done"
    /\ IF escaped
       THEN DiagThrow(exc)
       ELSE info' = [info EXCEPT !.parse_result = ret] /\ pc' = "diag_done"
    /\ UNCHANGED <<normVars, selVars, parseVars, extractVars, sseVars, svcVars>>

\* diagnose_xbrl is called on the archives parse_xbrl_for_holding_data is
\* called on
InitDiagnose ==
    /\ \/ zip_content \in {[kind |-> "empty", members |-> <<>>],
                           [kind |-> "garbage", members |-> <<>>]}
       \/ \E k \in 0..MaxMembers : \E ms \in Archives(k) :
             zip_content = [kind |-> "zip", members |-> ms]
    /\ info = NewInfo
    /\ result = EmptyHoldingResult
    /\ partial_results = <<>>
    /\ htm_i = 1
    /\ reads = <<>>
    /\ exc = ""
    /\ ret = NoCall
    /\ escaped = FALSE
    /\ pc = "diag_open"
    /\ IdleSel /\ IdleNorm /\ IdleExtract /\ IdleSSE /\ IdleSvc

NextDiagnose ==
    \/ DiagnoseOpen
    \/ DiagnoseSampleXbrl
    \/ DiagnoseSampleHtm
    \/ Open
    \/ TryXbrl
    \/ TryInline
    \/ Merge
    \/ DiagnoseReturn

SpecDiagnose == InitDiagnose /\ [][NextDiagnose]_vars

(***************************************************************************)
(* Properties of diagnose_xbrl (SpecDiagnose)                              *)
(***************************************************************************)
\* C18: for an archive that opens, diagnose_xbrl reports the candidate lists
\* the production call selected and, as parse_result, the record the
\* production call returned for the same bytes; for bytes that do not open it
\* reports zip_valid = false and no parse_result; no exception leaves it.
C18_DiagnosticsMatchProduction ==
    /\ ~escaped
    /\ pc = "diag_done" =>
          IF zip_content.kind = "zip"
          THEN /\ info.zip_valid
               /\ info.error = ""
               /\ info.xbrl_files = xbrl_files
               /\ info.htm_files = htm_files
               /\ info.xbrl_files = DiscoverXbrlFiles(all_files)[1]
               /\ info.htm_files = DiscoverXbrlFiles(all_files)[2]
               /\ ret # NoCall
               /\ info.parse_result = ret
          ELSE /\ ~info.zip_valid
               /\ info.parse_result = None
               /\ ret = NoCall

\* an archive whose first candidates of both formats cannot be sampled (one
\* is not XML, the other cannot be read) was diagnosed, and the production
\* call returned a record with a ratio
C18_Witness ==
    /\ pc = "diag_done"
    /\ info.xbrl_sample_elements = <<"error">>
    /\ info.htm_sample_elements \in {<<"error">>, <<"elements(regex)">>}
    /\ info.parse_result # None
    /\ ~IsNone(info.parse_result.holding_ratio)

(***************************************************************************)
(* SSEBroadcaster (src/app/poller.py) and the stream endpoint's use of it  *)
(*                                                                         *)
(* No method awaits while it holds self._lock, so on the event loop each   *)
(* method runs from its first line to its last without another coroutine   *)
(* in between: one action per method.  A queue is the sequence of the      *)
(* messages in it, oldest first.                                           *)
(***************************************************************************)
\* capacity of a client queue in the model; asyncio.Queue(maxsize=100) in
\* the source
QueueMaxSize == 2

\* most clients subscribed in a run
MaxClients == 2

\* most events broadcast in a run
MaxEvents == 3

SseEvents == {"new_filing", "stats_update"}
SseData == {"d1"}

\* json.dumps(data, cls=JsonEncoder, ensure_ascii=False)
Payload(data) == [json |-> data]

\* f"event: {event}\ndata: {payload}\n\n": the lines of the message
Message(event, data) == [event |-> event, data |-> Payload(data)]

\* the arguments the callers pass for last_event_id: none, None, an integer
LastEventIds ==
    {NoArg, [given |-> TRUE, none |-> TRUE, id |-> 0]}
        \cup {[given |-> TRUE, none |-> FALSE, id |-> n] : n \in 0..MaxEvents}

\* the clients put_nowait raises QueueFull for, with the test off by one
FullQueuesOffByOne(cs) == {c \in DOMAIN cs : Len(cs[c]) > QueueMaxSize}

\* the clients put_nowait raises QueueFull for: dead
FullQueues(cs) == {c \in DOMAIN cs : Len(cs[c]) >= QueueMaxSize}

\* subscribe(self): a call that passes anything for last_event_id ends with
\* TypeError before the body runs, the signature has no such parameter
SseSubscribe(arg) ==
    /\ next_id < MaxClients
    /\ IF arg.given
       THEN /\ sse_op' = SseOp("subscribe", arg, "TypeError", -1, {})
            /\ UNCHANGED <<clients, next_id>>
       ELSE /\ clients' = [c \in DOMAIN clients \cup {next_id} |->
                              IF c = next_id THEN <<>> ELSE clients[c]]
            /\ next_id' = next_id + 1
            /\ sse_op' = SseOp("subscribe", arg, "", next_id, {})
    /\ UNCHANGED <<sent, pc, normVars, selVars, parseVars, extractVars, diagVars, svcVars>>

\* unsubscribe(client_id)
SseUnsubscribe(client_id) ==
    /\ clients' = [c \in DOMAIN clients \ {client_id} |-> clients[c]]
    /\ sse_op' = SseOp("unsubscribe", NoArg, "", client_id, {})
    /\ UNCHANGED <<next_id, sent, pc, normVars, selVars, parseVars, extractVars, diagVars, svcVars>>

\* broadcast(event, data)
SseBroadcast(event, data) ==
    /\ Len(sent) < MaxEvents
    /\ LET message == Message(event, data)
           dead == FullQueues(clients)
       IN /\ clients' = [c \in DOMAIN clients \ dead |-> Append(clients[c], message)]
          /\ sse_op' = SseOp("broadcast", NoArg, "", -1, dead)
          /\ sent' = Append(sent, message)
    /\ UNCHANGED <<next_id, pc, normVars, selVars, parseVars, extractVars, diagVars, svcVars>>

\* queue.get() of the stream endpoint's generator, for a queue that holds a
\* message
SseGet(client_id) ==
    /\ client_id \in DOMAIN clients
    /\ clients[client_id] # <<>>
    /\ clients' = [clients EXCEPT ![client_id] = Tail(@)]
    /\ sse_op' = SseOp("get", NoArg, "", client_id, {})
    /\ UNCHANGED <<next_id, sent, pc, normVars, selVars, parseVars, extractVars, diagVars, svcVars>>

InitSSE ==
    /\ NewBroadcaster
    /\ pc = "sse"
    /\ IdleNorm /\ IdleSel /\ IdleParse /\ IdleExtract /\ IdleDiag /\ IdleSvc

NextSSE ==
    \/ \E arg \in LastEventIds : SseSubscribe(arg)
    \/ \E c \in 0..(MaxClients - 1) : SseUnsubscribe(c)
    \/ \E e \in SseEvents, d \in SseData : SseBroadcast(e, d)
    \/ \E c \in 0..(MaxClients - 1) : SseGet(c)

SpecSSE == InitSSE /\ [][NextSSE]_vars

(***************************************************************************)
(* Properties of the broadcaster (SpecSSE)                                 *)
(***************************************************************************)
\* the step is a broadcast
BroadcastStep == Len(sent') = Len(sent) + 1

\* C19: whatever was subscribed, unsubscribed, broadcast and consumed before,
\* a broadcast can be made and ends without an exception; it appends its
\* message to the queue of every registered client whose queue had room and
\* leaves those clients registered, and it removes exactly the clients whose
\* queue was full.
C19_BroadcastDropsExactlyFull ==
    /\ [](Len(sent) < MaxEvents =>
             \A e \in SseEvents, d \in SseData : ENABLED SseBroadcast(e, d))
    /\ [][BroadcastStep =>
             /\ sse_op'.name = "broadcast"
             /\ sse_op'.raised = ""
             /\ DOMAIN clients' = {c \in DOMAIN clients : Len(clients[c]) < QueueMaxSize}
             /\ sse_op'.dead = {c \in DOMAIN clients : Len(clients[c]) = QueueMaxSize}
             /\ \A c \in DOMAIN clients' :
                   clients'[c] = Append(clients[c], sent'[Len(sent')])]_vars

\* a broadcast dropped a client whose queue was full and reached another
\* whose queue had room
C19_Witness ==
    /\ sse_op.name = "broadcast"
    /\ sse_op.dead # {}
    /\ \E c \in DOMAIN clients :
          /\ clients[c] # <<>>
          /\ clients[c][Len(clients[c])] = sent[Len(sent)]

\* the message has an id line
HasIdLine(message) == "id" \in DOMAIN message

\* C20: every event broadcast carries an event id, and subscribing with
\* last_event_id = N pre-loads the new client's queue with the events whose
\* id (their position in the order of broadcast) is greater than N, in that
\* order, up to the capacity of the queue; subscribing without an id replays
\* nothing.  Fewer events are broadcast here than any event buffer drops.
C20_ReplayOnSubscribe ==
    /\ \A i \in 1..Len(sent) : HasIdLine(sent[i])
    /\ sse_op.name = "subscribe" =>
          /\ sse_op.raised = ""
          /\ sse_op.client \in DOMAIN clients
          /\ clients[sse_op.client] =
                IF sse_op.arg.given /\ ~sse_op.arg.none
                THEN SubSeq(sent, sse_op.arg.id + 1,
                            IF Len(sent) < sse_op.arg.id + QueueMaxSize
                            THEN Len(sent) ELSE sse_op.arg.id + QueueMaxSize)
                ELSE <<>>

(***************************************************************************)
(* poll_edinet (src/app/poller.py) and the table filings                   *)
(*                                                                         *)
(* poll_edinet calls run as coroutines of one event loop: run_poller calls *)
(* it in its loop, trigger_poll starts it as a task.  Between two awaits a *)
(* coroutine runs alone, so one action is the code from one await to the   *)
(* next.  Each call has its own database session; a statement of one       *)
(* session sees the rows other sessions have committed.                    *)
(***************************************************************************)
\* the doc ids of the documents upstream lists; NoDocId is a document without
\* a docID, DemoDoc stands for the filings generate_demo_filings makes
DocIds == {"S1", "S2"}
NoDocId == ""
DemoDoc == "demo"

\* most documents in one document list
MaxDocs == 2

\* most poll_edinet calls of one behaviour
MaxPolls == 3

\* the members of a sequence
Range(seq) == {seq[i] : i \in 1..Len(seq)}

\* how often d is in seq
Count(seq, d) == Cardinality({i \in 1..Len(seq) : seq[i] = d})

\* table filings without its unique index on doc_id
UniqueViolationNever(d) == FALSE

\* Filing.doc_id is unique: an INSERT of a doc_id that a committed row has
\* ends with IntegrityError
UniqueViolation(d) == d \in Range(filings)

\* another session holds an uncommitted row with this doc_id
PendingElsewhere(r, d) == \E r2 \in Runs \ {r} : runs[r2].row = d

\* poll_edinet(target_date) up to its first database statement: docs is the
\* list fetch_document_list returned, empty also when every attempt raised;
\* with an empty list _seed_demo_if_empty returns at once when the process
\* has seeded before, else it counts the rows
PollEdinet(r, docs) ==
    /\ runs[r].pc = "idle"
    /\ polls_started < MaxPolls
    /\ polls_started' = polls_started + 1
    /\ runs' = [runs EXCEPT ![r] =
                   IF docs # <<>> THEN [IdleRun EXCEPT !.pc = "check", !.docs = docs]
                   ELSE IF demo_seeded THEN IdleRun
                   ELSE [IdleRun EXCEPT !.pc = "seed_count"]]
    /\ UNCHANGED <<filings, announced, demo_seeded, coreVars, limitVars, restVars>>

\* the top of the loop over filings up to the end of the SELECT; after the
\* loop, to the stats_update broadcast or to the return
PollCheck(r) ==
    LET run == runs[r]
    IN /\ run.pc = "check"
       /\ runs' = [runs EXCEPT ![r] =
              IF run.docs = <<>>
              THEN IF run.new_count > 0 THEN [run EXCEPT !.pc = "stats"] ELSE IdleRun
              ELSE IF Head(run.docs) = NoDocId \/ Head(run.docs) \in Range(filings)
              THEN [run EXCEPT !.docs = Tail(@)]
              ELSE [run EXCEPT !.pc = "flush"]]
       /\ UNCHANGED <<filings, announced, demo_seeded, polls_started, coreVars, limitVars, restVars>>

\* session.add(filing) and session.flush(): the INSERT.  It fails on the
\* unique index; while another session holds the same doc_id uncommitted it
\* waits or gives up; any statement may fail for reasons of its own.  A
\* failure is logged, rolled back and the loop goes on.
PollFlush(r) ==
    LET run == runs[r]
        d == Head(run.docs)
    IN /\ run.pc = "flush"
       /\ \/ /\ ~UniqueViolation(d)
             /\ ~PendingElsewhere(r, d)
             /\ runs' = [runs EXCEPT ![r] = [run EXCEPT !.row = d, !.pc = "commit"]]
          \/ runs' = [runs EXCEPT ![r] = [run EXCEPT !.docs = Tail(@), !.pc = "check"]]
       /\ UNCHANGED <<filings, announced, demo_seeded, polls_started, coreVars, limitVars, restVars>>

\* _enrich_from_xbrl, session.commit() and session.refresh(filing): the row
\* is committed and the call goes on to broadcast it; or the commit fails and
\* is rolled back; or the refresh after the commit fails
PollCommit(r) ==
    LET run == runs[r]
    IN /\ run.pc = "commit"
       /\ \/ /\ filings' = Append(filings, run.row)
             /\ runs' = [runs EXCEPT ![r] = [run EXCEPT !.row = "", !.pc = "broadcast"]]
          \/ /\ filings' = filings
             /\ runs' = [runs EXCEPT ![r] =
                            [run EXCEPT !.row = "", !.docs = Tail(@), !.pc = "check"]]
          \/ /\ filings' = Append(filings, run.row)
             /\ runs' = [runs EXCEPT ![r] =
                            [run EXCEPT !.row = "", !.docs = Tail(@), !.pc = "check"]]
       /\ UNCHANGED <<announced, demo_seeded, polls_started, coreVars, limitVars, restVars>>

\* new_count += 1 and broadcaster.broadcast("new_filing", filing.to_dict())
PollBroadcast(r) ==
    LET run == runs[r]
    IN /\ run.pc = "broadcast"
       /\ announced' = Append(announced, Head(run.docs))
       /\ runs' = [runs EXCEPT ![r] =
                      [run EXCEPT !.new_count = @ + 1, !.docs = Tail(@), !.pc = "check"]]
       /\ UNCHANGED <<filings, demo_seeded, polls_started, coreVars, limitVars, restVars>>

\* broadcaster.broadcast("stats_update", ...) and the return
PollStats(r) ==
    /\ runs[r].pc = "stats"
    /\ runs' = [runs EXCEPT ![r] = IdleRun]
    /\ UNCHANGED <<filings, announced, demo_seeded, polls_started, coreVars, limitVars, restVars>>

\* _seed_demo_if_empty from the result of the count query to the commit of
\* the demo filings
SeedCount(r) ==
    /\ runs[r].pc = "seed_count"
    /\ \/ /\ filings # <<>>
          /\ demo_seeded' = TRUE
          /\ runs' = [runs EXCEPT ![r] = IdleRun]
          /\ UNCHANGED filings
       \/ /\ filings = <<>>
          /\ runs' = [runs EXCEPT ![r] = [runs[r] EXCEPT !.pc = "seed_commit"]]
          /\ UNCHANGED <<filings, demo_seeded>>
    /\ UNCHANGED <<announced, polls_started, coreVars, limitVars, restVars>>

\* the commit of the demo filings: its IntegrityError leaves poll_edinet
SeedCommit(r) ==
    /\ runs[r].pc = "seed_commit"
    /\ IF UniqueViolation(DemoDoc)
       THEN /\ runs' = [runs EXCEPT ![r] = IdleRun]
            /\ UNCHANGED <<filings, demo_seeded>>
       ELSE /\ filings' = Append(filings, DemoDoc)
            /\ demo_seeded' = TRUE
            /\ runs' = [runs EXCEPT ![r] = [runs[r] EXCEPT !.pc = "seed_broadcast"]]
    /\ UNCHANGED <<announced, polls_started, coreVars, limitVars, restVars>>

\* the broadcasts of the demo filings and of stats_update
SeedBroadcast(r) ==
    /\ runs[r].pc = "seed_broadcast"
    /\ announced' = Append(announced, DemoDoc)
    /\ runs' = [runs EXCEPT ![r] = IdleRun]
    /\ UNCHANGED <<filings, demo_seeded, polls_started, coreVars, limitVars, restVars>>

InitPoll ==
    /\ IdlePoll
    /\ pc = "poll"
    /\ IdleNorm /\ IdleSel /\ IdleParse /\ IdleExtract /\ IdleDiag /\ IdleSSE /\ IdleLimit
    /\ IdleFetch /\ IdleRetry

NextPoll ==
    \/ \E r \in Runs, k \in 0..MaxDocs : \E docs \in [1..k -> DocIds \cup {NoDocId}] :
          PollEdinet(r, docs)
    \/ \E r \in Runs : PollCheck(r)
    \/ \E r \in Runs : PollFlush(r)
    \/ \E r \in Runs : PollCommit(r)
    \/ \E r \in Runs : PollBroadcast(r)
    \/ \E r \in Runs : PollStats(r)
    \/ \E r \in Runs : SeedCount(r)
    \/ \E r \in Runs : SeedCommit(r)
    \/ \E r \in Runs : SeedBroadcast(r)

SpecPoll == InitPoll /\ [][NextPoll]_vars

(***************************************************************************)
(* Properties of poll_edinet (SpecPoll)                                    *)
(***************************************************************************)
\* C21: whatever the interleaving of the poll_edinet calls of the poller loop
\* and of manual polls, and however often a doc id is repeated within and
\* across their document lists, table filings has at most one row per doc_id
\* and a 'new_filing' event is broadcast at most once per doc_id, and only
\* for a row that has been committed.
C21_OneFilingOneEventPerDocId ==
    \A d \in DocIds \cup {DemoDoc, NoDocId} :
        /\ Count(filings, d) <= 1
        /\ Count(announced, d) <= 1
        /\ d \in Range(announced) => d \in Range(filings)

\* two calls have both found S1 absent; one has committed and announced it,
\* the other is about to insert it
C21_Witness ==
    /\ \E r \in Runs : runs[r].pc = "flush" /\ Head(runs[r].docs) = "S1"
    /\ Count(filings, "S1") = 1
    /\ Count(announced, "S1") = 1

(***************************************************************************)
(* trigger_poll (src/app/routers/poll.py)                                  *)
(*                                                                         *)
(* The handler awaits nothing once it has the lock, and the lock is free   *)
(* whenever a handler asks for it, so on the event loop a request is       *)
(* handled in one step.  The reference point of time.monotonic() is not    *)
(* defined: the clock of a new process shows any value.                    *)
(***************************************************************************)
_POLL_COOLDOWN == 10

\* the seconds between two readings of the clock
TickSeconds == 5

\* the last reading of the clock
MaxTime == 30

\* most requests of one behaviour
MaxRequests == 3

\* the date parameter of a request: absent, a date, or no date
Dates == {"none", "valid", "invalid"}

\* what a request was answered: the clock when it was handled, its date
\* parameter, the status code and whether a poll task was created
Answer(at, date, status, task) ==
    [at |-> at, date |-> date, status |-> status, task |-> task]

\* POST /api/poll with the date parameter given
TriggerPoll(date) ==
    /\ pc = "serve"
    /\ Len(answers) < MaxRequests
    /\ IF now - poll_last_called < _POLL_COOLDOWN
       THEN /\ answers' = Append(answers, Answer(now, date, 429, FALSE))
            /\ UNCHANGED poll_last_called
       ELSE /\ poll_last_called' = now
            /\ answers' = Append(answers,
                                 IF date = "invalid" THEN Answer(now, date, 400, FALSE)
                                 ELSE Answer(now, date, 200, TRUE))
    /\ UNCHANGED <<now, pc, normVars, selVars, parseVars, extractVars, diagVars, sseVars,
                   pollVars, restVars>>

\* time passes
Tick ==
    /\ pc = "serve"
    /\ now + TickSeconds <= MaxTime
    /\ now' = now + TickSeconds
    /\ UNCHANGED <<poll_last_called, answers, pc, normVars, selVars, parseVars,
                   extractVars, diagVars, sseVars, pollVars, restVars>>

InitTrigger ==
    /\ now \in {0, TickSeconds, _POLL_COOLDOWN}
    /\ poll_last_called = 0
    /\ answers = <<>>
    /\ pc = "serve"
    /\ IdleNorm /\ IdleSel /\ IdleParse /\ IdleExtract /\ IdleDiag /\ IdleSSE /\ IdlePoll
    /\ IdleFetch /\ IdleRetry

NextTrigger == (\E date \in Dates : TriggerPoll(date)) \/ Tick

SpecTrigger == InitTrigger /\ [][NextTrigger]_vars

(***************************************************************************)
(* Properties of trigger_poll (SpecTrigger)                                *)
(***************************************************************************)
\* a poll task was created less than the cooldown before request i
InCooldown(i) ==
    \E j \in 1..(i - 1) :
        answers[j].task /\ answers[i].at - answers[j].at < _POLL_COOLDOWN

\* C22: of the requests within ten seconds at most one starts a poll task;
\* every other request within ten seconds of it is answered 429 and starts
\* none; a request that arrives when the cooldown is over is accepted: it is
\* answered 200 and starts a task.
C22_OncePerCooldown ==
    \A i \in 1..Len(answers) :
        IF InCooldown(i)
        THEN answers[i].status = 429 /\ ~answers[i].task
        ELSE answers[i].date # "invalid" => (answers[i].status = 200 /\ answers[i].task)

(***************************************************************************)
(* EdinetClient.fetch_document_list                                        *)
(***************************************************************************)
\* a key the JSON object does not have
Absent == "absent"

\* settings.LARGE_HOLDING_DOC_TYPES
LARGE_HOLDING_DOC_TYPES == {"350", "360"}

\* the longest list "results" that is tried
MaxResults == 2

\* the status codes of the responses that are tried
StatusCodes == {200, 404, 500}

\* the entries of "results" that are tried
UpstreamDocs ==
    [docID : {"S1", "S2"},
     docTypeCode : {"350", "360", "120", Absent},
     withdrawalStatus : {"0", "1", "2", Absent},
     disclosureStatus : {"0", "1", Absent}]

\* how the request ends: client.get raises a network error, or a response
\* arrives with its status code and, in its body, metadata.status and results
Upstream(get, code, status, results) ==
    [get |-> get, status_code |-> code, status |-> status, results |-> results]

\* dict.get(key, default) of a document
DocGet(d, default) == IF d = Absent THEN default ELSE d

\* resp.raise_for_status(): raises unless the status code is a success
RaiseForStatus(code) == ~(code \in 200..299)

_fetch_documents_raw(u) ==
    IF u.get = "raises" THEN Raised
    ELSE IF RaiseForStatus(u.status_code) THEN Raised
    ELSE IF u.status # "200" THEN Ok(<<>>)
    ELSE Ok(u.results)

\* the loop of fetch_document_list over results
RECURSIVE FilterLoop(_, _)
FilterLoop(results, acc) ==
    IF results = <<>> THEN acc
    ELSE LET d == Head(results)
             doc_type == d.docTypeCode
             withdrawal == DocGet(d.withdrawalStatus, "0")
             disclosure == DocGet(d.disclosureStatus, "0")
         IN  IF doc_type \notin LARGE_HOLDING_DOC_TYPES THEN FilterLoop(Tail(results), acc)
             ELSE IF withdrawal = "1" THEN FilterLoop(Tail(results), acc)
             ELSE IF disclosure # "0" THEN FilterLoop(Tail(results), acc)
             ELSE FilterLoop(Tail(results), Append(acc, d))

fetch_document_list(u) ==
    LET results == _fetch_documents_raw(u)
    IN  IF results.raised THEN Raised ELSE Ok(FilterLoop(results.v, <<>>))

\* the call fetch_document_list(target_date)
FetchDocumentList ==
    /\ pc = "fetch"
    /\ fetched' = fetch_document_list(upstream)
    /\ pc' = "done"
    /\ UNCHANGED <<upstream, normVars, selVars, parseVars, extractVars, diagVars, sseVars,
                   pollVars, limitVars, retryVars>>

InitFetch ==
    /\ \/ upstream = Upstream("raises", 200, Absent, <<>>)
       \/ \E code \in StatusCodes \ {200} : upstream = Upstream("response", code, Absent, <<>>)
       \/ \E status \in {"200", "404", Absent}, n \in 0..MaxResults :
            \E results \in [1..n -> UpstreamDocs] :
                upstream = Upstream("response", 200, status, results)
    /\ fetched = NoCall
    /\ pc = "fetch"
    /\ IdleNorm /\ IdleSel /\ IdleParse /\ IdleExtract /\ IdleDiag /\ IdleSSE
    /\ IdlePoll /\ IdleLimit /\ IdleRetry

NextFetch == FetchDocumentList

SpecFetch == InitFetch /\ [][NextFetch]_vars

(***************************************************************************)
(* Properties of fetch_document_list (SpecFetch)                           *)
(***************************************************************************)
\* the request failed upstream: a network error, an HTTP error status or a
\* metadata status other than "200"
UpstreamFailure(u) ==
    \/ u.get = "raises"
    \/ u.status_code >= 400
    \/ u.status # "200"

\* a large-holding document that is not withdrawn and is disclosed
WantedDoc(d) ==
    /\ d.docTypeCode \in {"350", "360"}
    /\ d.withdrawalStatus # "1"
    /\ d.disclosureStatus \in {"0", Absent}

\* C23: fetch_document_list never raises on an upstream failure: on a network
\* error, an HTTP error status or a metadata status other than "200" it
\* returns the empty list, and otherwise exactly the large-holding documents
\* that are not withdrawn and are disclosed, in upstream order.
C23_FetchNeverRaises ==
    fetched # NoCall =>
        IF UpstreamFailure(upstream) THEN fetched = Ok(<<>>)
        ELSE fetched = Ok(SelectSeq(upstream.results, WantedDoc))

(***************************************************************************)
(* _retry_xbrl_enrichment in the loop of run_poller                        *)
(*                                                                         *)
(* rows holds xbrl_parsed of every row of table filings that has xbrl_flag *)
(* set, in id order.  The function awaits the count, the SELECT of the     *)
(* batch and the enrichment one after the other; other tasks of the event  *)
(* loop (poll_edinet storing a filing, the retry endpoints of              *)
(* routers/filings.py) commit between these awaits.  An enrichment may     *)
(* fail every time it is tried: such a filing stays unparseable for ever.  *)
(***************************************************************************)
\* .limit(5)
RetryLimit == 5

\* the most rows with xbrl_flag the table gets
MaxRows == 6

\* the positions in rows of the unparsed filings, in id order
RECURSIVE UnparsedFrom(_, _)
UnparsedFrom(table, i) ==
    IF i > Len(table) THEN <<>>
    ELSE IF table[i] THEN UnparsedFrom(table, i + 1)
    ELSE <<i>> \o UnparsedFrom(table, i + 1)

Unparsed(table) == UnparsedFrom(table, 1)

\* .offset(offset).limit(limit) of a result list
OffsetLimit(list, offset, limit) ==
    SubSeq(list, offset + 1, IF offset + limit < Len(list) THEN offset + limit ELSE Len(list))

\* the batch SELECTed at the given offset
SelectBatch(table, offset) == OffsetLimit(Unparsed(table), offset, RetryLimit)

\* an offset that stays where it is
AdvanceNever(offset, batch) == offset

\* _retry_offset += len(filings)
Advance(offset, batch) == offset + Len(batch)

\* the count query returns; an offset at or past the count wraps to 0
RetryCount ==
    /\ pc = "retry"
    /\ total_unparsed' = Len(Unparsed(rows))
    /\ IF total_unparsed' = 0
       THEN _retry_offset' = 0 /\ pc' = "retry"
       ELSE /\ _retry_offset' = IF _retry_offset >= total_unparsed' THEN 0 ELSE _retry_offset
            /\ pc' = "select"
    /\ UNCHANGED <<rows, retry_filings, normVars, selVars, parseVars, extractVars, diagVars,
                   sseVars, pollVars, limitVars, fetchVars>>

\* the SELECT of the batch returns; the offset moves past the batch
RetrySelect ==
    /\ pc = "select"
    /\ LET batch == SelectBatch(rows, _retry_offset)
       IN  IF batch = <<>>
           THEN /\ _retry_offset' = 0
                /\ pc' = "retry"
                /\ UNCHANGED retry_filings
           ELSE /\ _retry_offset' = Advance(_retry_offset, batch)
                /\ retry_filings' = batch
                /\ pc' = "enrich"
    /\ UNCHANGED <<rows, total_unparsed, normVars, selVars, parseVars, extractVars, diagVars,
                   sseVars, pollVars, limitVars, fetchVars>>

\* the batch is enriched and committed: the filings of the set done get
\* xbrl_parsed; none does when every download fails, the batch times out or
\* the commit fails
RetryEnrich ==
    /\ pc = "enrich"
    /\ \E done \in SUBSET Range(retry_filings) :
          rows' = [i \in 1..Len(rows) |-> rows[i] \/ i \in done]
    /\ retry_filings' = <<>>
    /\ pc' = "retry"
    /\ UNCHANGED <<_retry_offset, total_unparsed, normVars, selVars, parseVars, extractVars,
                   diagVars, sseVars, pollVars, limitVars, fetchVars>>

\* poll_edinet commits a new filing with xbrl_flag, enriched or not
FilingStored ==
    /\ Len(rows) < MaxRows
    /\ \E xbrl_parsed \in BOOLEAN : rows' = Append(rows, xbrl_parsed)
    /\ UNCHANGED <<pc, _retry_offset, total_unparsed, retry_filings, normVars, selVars,
                   parseVars, extractVars, diagVars, sseVars, pollVars, limitVars, fetchVars>>

\* POST retry-xbrl or batch-retry-xbrl parses a filing and commits
RetryXbrlEndpoint ==
    /\ \E i \in 1..Len(rows) :
          /\ ~rows[i]
          /\ rows' = [rows EXCEPT ![i] = TRUE]
    /\ UNCHANGED <<pc, _retry_offset, total_unparsed, retry_filings, normVars, selVars,
                   parseVars, extractVars, diagVars, sseVars, pollVars, limitVars, fetchVars>>

InitRetry ==
    /\ IdleRetry
    /\ pc = "retry"
    /\ IdleNorm /\ IdleSel /\ IdleParse /\ IdleExtract /\ IdleDiag /\ IdleSSE
    /\ IdlePoll /\ IdleLimit /\ IdleFetch

\* a step of the poller loop inside _retry_xbrl_enrichment
RunPoller == RetryCount \/ RetrySelect \/ RetryEnrich

NextRetry == RetryCount \/ RetrySelect \/ RetryEnrich \/ FilingStored \/ RetryXbrlEndpoint

SpecRetry == InitRetry /\ [][NextRetry]_vars

\* run_poller is while True: every cycle calls _retry_xbrl_enrichment, and
\* each of its awaits returns
SpecRetryFair == SpecRetry /\ WF_vars(RunPoller)

(***************************************************************************)
(* Properties of _retry_xbrl_enrichment (SpecRetryFair)                    *)
(***************************************************************************)
\* row i is stored with xbrl_flag set and xbrl_parsed unset
AwaitsRetry(i) == i <= Len(rows) /\ ~rows[i]

\* row i is in the batch the cycle has selected
InRetryBatch(i) == pc = "enrich" /\ i \in Range(retry_filings)

====
